---- MODULE Spec2Model ----
(***************************************************************************)
(* pg_vectorize: the job manager (initialize_job / scan_job and its        *)
(* batches), the tokens sidecar, the change-capture triggers of the server *)
(* and of the extension, the pgmq work queue and the remote worker         *)
(* (poll_job / execute_job / main loop), the identifier check of the SQL   *)
(* templates (check_input), the server's job cache with its lock, its      *)
(* listener and the search handler (request checks, job lookup, filters,   *)
(* hybrid ranking), and the wire proxy's connection handler, as a state    *)
(* machine.                                                                *)
(***************************************************************************)
EXTENDS Integers, Sequences, FiniteSets, TLC

(* ------------------------------ bounds -------------------------------- *)
NumKeys == 2
NumRows == 5
BatchSize == 2
NumWorkers == 2
MaxMsgs == 3
MaxFails == 2
\* Config.max_retries (read from the environment by Config::from_env)
MaxRetries == 2

Keys == 1..NumKeys
Workers == 1..NumWorkers
\* the worker of the single-worker deployment (bin/worker.rs runs one loop)
OneWorker == {1}

Texts == {"a ", "b"}
NoRow == "NoRow"
NoJob == [job_name |-> "", primary_key |-> "", model |-> ""]
EmptyCatalog == [n \in {} |-> NoJob]
NoMsg == [msg_id |-> 0, read_ct |-> 0, job_name |-> "", record_ids |-> {}, upserted |-> FALSE]
Models == {"m1", "m2"}

VARIABLES
    catalog,    \* vectorize.job: job_name -> row, for the job names it holds
    objects,    \* committed schema objects of the job (tables, view, indices, triggers)
    embDim,     \* D of the sidecar's vector(D) column, 0 while the table does not exist
    source,     \* the source table: primary key -> text column value, or NoRow
    sidecar,    \* vectorize._embeddings_<job>: set of rows [pk, embeddings]
    queue,      \* pgmq queue vectorize_jobs: msg_id -> [job_name, record_ids, read_ct, st]
    fails,      \* provider / database failures that have happened so far
    pc,         \* worker -> position in main / poll_job / execute_job
    cur,        \* worker -> the message it read (as read) and whether its upsert is done, or NoMsg
    job,        \* worker -> the catalog row execute_job looked up
    inputs,     \* worker -> the Inputs built from the fetched source rows
    dropped,    \* keys of messages archived unprocessed (logged "exceeds max retry")
    ij,         \* the running initialize_job call: [pc, req, tx, snap, res]
    jobmap,     \* the server's job cache: Arc<RwLock<HashMap<String, VectorizeJob>>>
    trigger,    \* job_change_trigger is installed on vectorize.job
    ver,        \* number of committed writes to vectorize.job so far
    notifs,     \* notifications queued on the listener's connection (versions, Undecodable)
    lst,        \* the server's startup / cache sync task: [pc, all_jobs, n, listened]
    retry_delay,\* start_cache_sync_listener's retry_delay, in seconds
    sleeps,     \* the delays start_cache_sync_listener has slept, in order
    lfails,     \* listener-side failures that have happened so far
    lbudget,    \* listener-side failures that may happen in this run
    processed,  \* versions whose notification the listener has finished handling
    sr,         \* search request -> [pc, job_name, filters, job, from, resp, results, did]
    ci_input,   \* the string handed to check_input, as bytes
    ci_result,  \* what check_input returned for it
    op,         \* the request whose SQL is traced: [kind, idents, checked, sql, resp]
    hs,         \* the search whose filters and ranking are traced: request, index, rows
    sj,         \* the scan_job call whose batches are traced: [rows, res]
    max_retries,\* config.max_retries of the worker
    tu,         \* the written row of a table with two embedded columns: [row, write, ran]
    lock,       \* the job map's RwLock: the tasks that hold a read guard, a write guard
    tokens,     \* vectorize._search_tokens_<job>: set of rows [pk, search_tokens]
    px          \* the proxy's connection: [handler, task, elapsed, bytes]

srvVars == <<jobmap, trigger, ver, notifs, lst, retry_delay, sleeps, lfails, lbudget,
             processed, sr>>
inVars == <<ci_input, ci_result, op, hs, sj, max_retries, tu, lock, tokens, px>>

vars == <<catalog, objects, embDim, source, sidecar, queue, fails,
          pc, cur, job, inputs, dropped, ij, srvVars, inVars>>

(* --------------------------- pure functions --------------------------- *)

\* row.input_text.trim()
Trim(t) == IF t = "a " THEN "a" ELSE t

\* {primary_key}::text as record_id
PkText(k) == ToString(k)

\* $1::{pk_type}[] : the text record id cast back to the key's type
CastPk(t) == CHOOSE k \in Keys : PkText(k) = t

\* the provider's vectors: their length is fixed by the model, their value by the input
ModelLen(m) == IF m = "m1" THEN 1 ELSE 2

generate_embedding(m, input) == [i \in 1..ModelLen(m) |-> input]

\* model_dim: the length of the embedding of a probe input
model_dim(m) == Len(generate_embedding(m, "hello world"))

\* the constraints of the sidecar table's DDL
create_embedding_table_nofk == [unique |-> TRUE, fk |-> "none"]

create_embedding_table == [unique |-> TRUE, fk |-> "cascade"]

\* the objects initialize_job creates inside its transaction
JobObjects == {"embeddings_table", "search_tokens_table", "project_view",
               "hnsw_cos_idx", "fts_idx", "search_tokens_trigger",
               "trigger_handler", "insert_trigger", "update_trigger"}

TheJob == "prods"
JobRow(m, pk) == [job_name |-> TheJob, primary_key |-> pk, model |-> m]

Present(k) == source[k] # NoRow
SidecarKeys == {r.pk : r \in sidecar}

Min(a, b) == IF a <= b THEN a ELSE b
Range(f) == {f[i] : i \in DOMAIN f}

(* ------------------------------ the queue ----------------------------- *)

Message(j, ids) == [job_name |-> j, record_ids |-> ids, read_ct |-> 0, st |-> "ready"]

\* pgmq.send
send(q, j, ids) == Append(q, Message(j, ids))

\* the message pgmq.read returns: the oldest visible one
Readable(q) == {i \in 1..Len(q) : q[i].st = "ready"}
Oldest(q) == CHOOSE i \in Readable(q) : \A j \in Readable(q) : i <= j

(* ------------------------ the tokens sidecar -------------------------- *)

\* to_tsvector('english', COALESCE(col, '')): the lexemes of the text
to_tsvector(t) == Trim(t)

\* INSERT INTO _search_tokens_<job> ... ON CONFLICT (pk) DO UPDATE: one row per key
upsert_tokens(tk, k, t) ==
    {r \in tk : r.pk # k} \cup {[pk |-> k, search_tokens |-> to_tsvector(t)]}

\* update_search_tokens_trigger_queries: the trigger on the source that keeps the
\* tokens row of a written row current
tokens_trigger(tk, k, t) ==
    IF "search_tokens_trigger" \in objects THEN upsert_tokens(tk, k, t) ELSE tk

\* create_search_tokens_table: the key references the source ON DELETE CASCADE
tokens_cascade(tk, k) == {r \in tk : r.pk # k}

\* a populate that inserts no row
populate_nothing(tk) == tk

\* initial_update_query: INSERT INTO _search_tokens_<job> SELECT pk, to_tsvector(..)
\* FROM source ON CONFLICT (pk) DO UPDATE SET search_tokens = EXCLUDED.search_tokens
populate_search_tokens(tk) ==
    {r \in tk : source[r.pk] = NoRow}
        \cup {[pk |-> k, search_tokens |-> to_tsvector(source[k])] : k \in {j \in Keys : source[j] # NoRow}}

\* the tokens sidecar of a database whose job, if it has one, is initialized
InitialTokens == IF "search_tokens_table" \in objects THEN populate_search_tokens({}) ELSE {}

(* ------------------------- change capture ----------------------------- *)

\* the row trigger: handle_update_<job>() sends {job_name, record_ids: [NEW.pk]}
TriggerFires == {"insert_trigger", "update_trigger", "trigger_handler"} \subseteq objects

trigger_send(q, k) == IF TriggerFires THEN send(q, TheJob, {PkText(k)}) ELSE q

InsertRow(k, t) ==
    /\ ~Present(k)
    /\ Len(queue) < MaxMsgs
    /\ source' = [source EXCEPT ![k] = t]
    /\ queue' = trigger_send(queue, k)
    /\ tokens' = tokens_trigger(tokens, k, t)
    /\ UNCHANGED <<catalog, objects, embDim, sidecar, fails, pc, cur, job, inputs, dropped, ij,
                   srvVars, ci_input, ci_result, op, hs, sj, max_retries, tu, lock, px>>

UpdateRow(k, t) ==
    /\ Present(k)
    /\ Len(queue) < MaxMsgs
    /\ source' = [source EXCEPT ![k] = t]
    /\ queue' = trigger_send(queue, k)
    /\ tokens' = tokens_trigger(tokens, k, t)
    /\ UNCHANGED <<catalog, objects, embDim, sidecar, fails, pc, cur, job, inputs, dropped, ij,
                   srvVars, ci_input, ci_result, op, hs, sj, max_retries, tu, lock, px>>

(* the row triggers of the extension (job.rs): handle_update_<job>() calls
   vectorize._handle_table_update('<job>', ARRAY[NEW.pk::text], ARRAY[NEW.col]) *)

\* a text with a single quote in it
QuotedText == "it's"
WrittenTexts == Texts \cup {QuotedText}

\* a condition that compares the old row with itself
trigger_condition_never(old, new) == old # old

\* generate_trigger_condition: OLD.col IS DISTINCT FROM NEW.col
generate_trigger_condition(old, new) == old # new

\* _handle_table_update raises: the record_ids and inputs differ in length (never, the
\* handler passes one of each), the job has no metadata, or the statement
\* select pgmq.send('<queue>', '<json>') is broken by a single quote of the input,
\* which is put between the quotes as it is. The error aborts the row's statement.
handle_table_update_raises(t) == TheJob \notin DOMAIN catalog \/ t = QuotedText

\* _handle_table_update: one JobMessage with the row's record_id is sent
handle_table_update(q, k, t) == send(q, TheJob, {PkText(k)})

\* INSERT on the source: vectorize_insert_trigger_<job>, AFTER INSERT FOR EACH ROW
insert_trigger(k, t) ==
    /\ ~Present(k)
    /\ Len(queue) < MaxMsgs
    /\ IF ~TriggerFires
       THEN source' = [source EXCEPT ![k] = t] /\ UNCHANGED queue
       ELSE IF handle_table_update_raises(t)
            THEN UNCHANGED <<source, queue>>
            ELSE /\ source' = [source EXCEPT ![k] = t]
                 /\ queue' = handle_table_update(queue, k, t)
    /\ tokens' = IF source'[k] = t THEN tokens_trigger(tokens, k, t) ELSE tokens
    /\ UNCHANGED <<catalog, objects, embDim, sidecar, fails, pc, cur, job, inputs, dropped, ij,
                   srvVars, ci_input, ci_result, op, hs, sj, max_retries, tu, lock, px>>

\* UPDATE on the source: vectorize_update_trigger_<job>, AFTER UPDATE FOR EACH ROW
\* WHEN (generate_trigger_condition)
update_trigger(k, t) ==
    /\ Present(k)
    /\ Len(queue) < MaxMsgs
    /\ IF ~(TriggerFires /\ generate_trigger_condition(source[k], t))
       THEN source' = [source EXCEPT ![k] = t] /\ UNCHANGED queue
       ELSE IF handle_table_update_raises(t)
            THEN UNCHANGED <<source, queue>>
            ELSE /\ source' = [source EXCEPT ![k] = t]
                 /\ queue' = handle_table_update(queue, k, t)
    /\ tokens' = IF source'[k] = t THEN tokens_trigger(tokens, k, t) ELSE tokens
    /\ UNCHANGED <<catalog, objects, embDim, sidecar, fails, pc, cur, job, inputs, dropped, ij,
                   srvVars, ci_input, ci_result, op, hs, sj, max_retries, tu, lock, px>>

(* a job on two input columns of a table that has a third column *)

input_columns == {"column1", "column2"}
TableColumns == input_columns \cup {"other"}
Null == "NULL"
ColumnValues == {Null, "x", "y"}
TableRows == [TableColumns -> ColumnValues]
NoTableRow == [c \in TableColumns |-> "absent"]
NoTu == [row |-> NoTableRow, old |-> NoTableRow, new |-> NoTableRow, write |-> "none", ran |-> FALSE]

\* the per-column conditions joined by AND
trigger_condition_and(columns, old, new) ==
    \A item \in columns : generate_trigger_condition(old[item], new[item])

\* generate_trigger_condition(inputs): OLD.item IS DISTINCT FROM NEW.item for every
\* item, joined by " OR "; IS DISTINCT FROM compares NULL like a value
trigger_condition(columns, old, new) ==
    \E item \in columns : generate_trigger_condition(old[item], new[item])

\* generate_input_concat: NEW.item || ' ' || NEW.item ..., NULL when an item is NULL
generate_input_concat(columns, new) ==
    IF \E item \in columns : new[item] = Null THEN Null
    ELSE <<new["column1"], " ", new["column2"]>>

\* the handler is called with ARRAY[<concat>]: a NULL element cannot be read as an
\* element of inputs: Vec<String>, and a job without metadata is an error!
table_update_raises(new) ==
    TheJob \notin DOMAIN catalog \/ generate_input_concat(input_columns, new) = Null

\* INSERT of the row: vectorize_insert_trigger_<job>, no WHEN clause
insert_row_columns(new) ==
    /\ tu.row = NoTableRow
    /\ TriggerFires
    /\ Len(queue) < MaxMsgs
    /\ IF table_update_raises(new)
       THEN /\ tu' = [tu EXCEPT !.old = NoTableRow, !.new = new, !.write = "insert", !.ran = TRUE]
            /\ UNCHANGED queue
       ELSE /\ tu' = [row |-> new, old |-> NoTableRow, new |-> new, write |-> "insert", ran |-> TRUE]
            /\ queue' = handle_table_update(queue, 1, generate_input_concat(input_columns, new))
    /\ UNCHANGED <<catalog, objects, embDim, source, sidecar, fails, pc, cur, job, inputs,
                   dropped, ij, srvVars, ci_input, ci_result, op, hs, sj, max_retries, lock,
                   tokens, px>>

\* UPDATE of the row: vectorize_update_trigger_<job>, WHEN ( trigger_condition )
update_row_columns(new) ==
    /\ tu.row # NoTableRow
    /\ TriggerFires
    /\ Len(queue) < MaxMsgs
    /\ IF ~trigger_condition(input_columns, tu.row, new)
       THEN /\ tu' = [row |-> new, old |-> tu.row, new |-> new, write |-> "update", ran |-> FALSE]
            /\ UNCHANGED queue
       ELSE IF table_update_raises(new)
            THEN /\ tu' = [tu EXCEPT !.old = tu.row, !.new = new, !.write = "update", !.ran = TRUE]
                 /\ UNCHANGED queue
            ELSE /\ tu' = [row |-> new, old |-> tu.row, new |-> new, write |-> "update", ran |-> TRUE]
                 /\ queue' = handle_table_update(queue, 1, generate_input_concat(input_columns, new))
    /\ UNCHANGED <<catalog, objects, embDim, source, sidecar, fails, pc, cur, job, inputs,
                   dropped, ij, srvVars, ci_input, ci_result, op, hs, sj, max_retries, lock,
                   tokens, px>>

\* DELETE of the row: no trigger of the job is on DELETE
delete_row_columns ==
    /\ tu.row # NoTableRow
    /\ tu' = [row |-> NoTableRow, old |-> tu.row, new |-> NoTableRow, write |-> "delete", ran |-> FALSE]
    /\ UNCHANGED <<catalog, objects, embDim, source, sidecar, queue, fails, pc, cur, job, inputs,
                   dropped, ij, srvVars, ci_input, ci_result, op, hs, sj, max_retries, lock,
                   tokens, px>>

\* DELETE on the source: the sidecar's foreign key decides what happens to its row
DeleteRow(k) ==
    /\ Present(k)
    /\ create_embedding_table.fk = "restrict" => k \notin SidecarKeys
    /\ source' = [source EXCEPT ![k] = NoRow]
    /\ sidecar' = IF create_embedding_table.fk = "cascade"
                  THEN {r \in sidecar : r.pk # k}
                  ELSE sidecar
    /\ tokens' = tokens_cascade(tokens, k)
    /\ UNCHANGED <<catalog, objects, embDim, queue, fails, pc, cur, job, inputs, dropped, ij,
                   srvVars, ci_input, ci_result, op, hs, sj, max_retries, tu, lock, px>>

\* a payload on the queue that names a job the catalog does not hold
CorruptSend ==
    /\ Len(queue) < MaxMsgs
    /\ queue' = send(queue, "missing", {PkText(1)})
    /\ UNCHANGED <<catalog, objects, embDim, source, sidecar, fails, pc, cur, job, inputs,
                   dropped, ij, srvVars, inVars>>

\* the visibility timeout (300 s) of a read message runs out
VtExpire(i) ==
    /\ i \in 1..Len(queue)
    /\ queue[i].st = "invisible"
    /\ queue' = [queue EXCEPT ![i].st = "ready"]
    /\ UNCHANGED <<catalog, objects, embDim, source, sidecar, fails, pc, cur, job, inputs,
                   dropped, ij, srvVars, inVars>>

(* ------------------------------ scan_job ------------------------------ *)

\* new_rows_query_join: the source rows that have no sidecar row
new_rows == {k \in Keys : Present(k) /\ k \notin SidecarKeys}

\* a scan that sends only the first record id of its batch
scan_job_first_only(q) ==
    IF new_rows = {} THEN q
    ELSE send(q, TheJob, {PkText(CHOOSE k \in new_rows : \A j \in new_rows : k <= j)})

\* a scan whose batching loses the last record id
scan_job_short_batch(q) ==
    IF new_rows = {} THEN q
    ELSE send(q, TheJob,
              {PkText(k) : k \in new_rows \ {CHOOSE m \in new_rows : \A j \in new_rows : j <= m}})

\* the rows of a set in the order of their keys
RECURSIVE InKeyOrder(_)
InKeyOrder(S) ==
    IF S = {} THEN <<>>
    ELSE LET k == CHOOSE x \in S : \A y \in S : x <= y IN <<k>> \o InKeyOrder(S \ {k})

\* all rows in one batch
create_one_batch(rows, batch_size) == <<rows>>

\* create_batches(rows, batch_size): the rows in batches of at most batch_size
RECURSIVE create_batches(_, _)
create_batches(rows, batch_size) ==
    IF rows = <<>> THEN <<>>
    ELSE LET n == Min(batch_size, Len(rows)) IN
         <<SubSeq(rows, 1, n)>> \o create_batches(SubSeq(rows, n + 1, Len(rows)), batch_size)

\* for b in batches { pgmq.send(.., JobMessage {job_name, record_ids}) }
RECURSIVE send_batches(_, _)
send_batches(q, batches) ==
    IF batches = <<>> THEN q
    ELSE send_batches(send(q, TheJob, {PkText(k) : k \in Range(batches[1])}), Tail(batches))

\* scan_job for the rows get_new_updates returned: create_batches(rows, 10000) with
\* the 10000 scaled to BatchSize, one message per batch, no message for no rows
scan_rows(q, rows) == send_batches(q, create_batches(rows, BatchSize))

scan_job(q) == scan_rows(q, InKeyOrder(new_rows))

\* the rows get_new_updates may return to the scan whose batches are traced
ScanRows == 1..NumRows
NoScan == [rows |-> <<>>, res |-> "off"]

\* scan_job returns Ok(()) after its last send
scan_job_ok ==
    /\ sj.res = "none"
    /\ queue' = scan_rows(queue, sj.rows)
    /\ sj' = [sj EXCEPT !.res = "Ok"]
    /\ UNCHANGED <<catalog, objects, embDim, source, sidecar, fails, pc, cur, job, inputs,
                   dropped, ij, srvVars, ci_input, ci_result, op, hs, max_retries, tu, lock,
                   tokens, px>>

\* get_new_updates(..).await? or a pgmq.send(..).await? fails: scan_job returns the
\* error, the batches sent before it stay on the queue
scan_job_err ==
    /\ sj.res = "none"
    /\ LET batches == create_batches(sj.rows, BatchSize) IN
       \E n \in 0..Len(batches) :
           /\ n < Len(batches) \/ n = 0
           /\ queue' = send_batches(queue, SubSeq(batches, 1, n))
    /\ sj' = [sj EXCEPT !.res = "Err"]
    /\ UNCHANGED <<catalog, objects, embDim, source, sidecar, fails, pc, cur, job, inputs,
                   dropped, ij, srvVars, ci_input, ci_result, op, hs, max_retries, tu, lock,
                   tokens, px>>

(* ------------------------------ the worker ---------------------------- *)

\* main's loop: where the worker goes after poll_job returned
worker_main_exits(result) ==
    CASE result = "OkSome" -> "read"
      [] result = "OkNone" -> "sleep"
      [] result = "Err"    -> "exit"

worker_main(result) ==
    CASE result = "OkSome" -> "read"
      [] result = "OkNone" -> "sleep"
      [] result = "Err"    -> "sleep"

\* poll_job: if read_ct <= config.max_retries { execute_job(...)? }
should_execute_off_by_one(read_ct) == read_ct <= max_retries + 1

should_execute(read_ct) == read_ct <= max_retries

\* poll_job after the read: execute_job, or straight to queue.archive
after_read_returns(read_ct) == IF should_execute(read_ct) THEN "get_job" ELSE "sleep"

after_read(read_ct) == IF should_execute(read_ct) THEN "get_job" ELSE "archive"

ExecPcs == {"get_job", "get_pk_type", "fetch", "embed", "upsert"}

\* poll_job returns: the worker's locals go out of scope, main picks the next step
Return(w, result) ==
    /\ pc' = [pc EXCEPT ![w] = worker_main(result)]
    /\ cur' = [cur EXCEPT ![w] = NoMsg]
    /\ job' = [job EXCEPT ![w] = NoJob]
    /\ inputs' = [inputs EXCEPT ![w] = {}]

\* execute_job(conn, msg).await? : an error of execute_job is returned at once
execute_job_err_archives(w) ==
    /\ pc' = [pc EXCEPT ![w] = "archive"]
    /\ UNCHANGED <<cur, job, inputs>>

execute_job_err(w) == Return(w, "Err")

\* queue.read(queue_name, 300) -> Ok(Some(msg))
poll_job_read(w) ==
    /\ pc[w] = "read"
    /\ Readable(queue) # {}
    /\ LET i == Oldest(queue)
           ct == queue[i].read_ct + 1
       IN /\ queue' = [queue EXCEPT ![i].read_ct = ct, ![i].st = "invisible"]
          /\ cur' = [cur EXCEPT ![w] = [msg_id |-> i, read_ct |-> ct,
                                        job_name |-> queue[i].job_name,
                                        record_ids |-> queue[i].record_ids,
                                        upserted |-> FALSE]]
          /\ pc' = [pc EXCEPT ![w] = after_read(ct)]
    /\ UNCHANGED <<catalog, objects, embDim, source, sidecar, fails, job, inputs, dropped, ij,
                   srvVars, inVars>>

\* queue.read -> Ok(None)
poll_job_read_none(w) ==
    /\ pc[w] = "read"
    /\ Readable(queue) = {}
    /\ Return(w, "OkNone")
    /\ UNCHANGED <<catalog, objects, embDim, source, sidecar, queue, fails, dropped, ij,
                   srvVars, inVars>>

\* queue.read -> Err(e)
poll_job_read_err(w) ==
    /\ pc[w] = "read"
    /\ fails < MaxFails
    /\ fails' = fails + 1
    /\ Return(w, "Err")
    /\ UNCHANGED <<catalog, objects, embDim, source, sidecar, queue, dropped, ij, srvVars, inVars>>

get_vectorize_job(name) ==
    IF name \in DOMAIN catalog THEN catalog[name] ELSE NoJob

\* a lookup that gives up on an unknown job and lets the message be archived
execute_job_get_job_skips_unknown(w) ==
    /\ pc[w] = "get_job"
    /\ LET j == get_vectorize_job(cur[w].job_name)
       IN /\ job' = [job EXCEPT ![w] = j]
          /\ pc' = [pc EXCEPT ![w] = IF j = NoJob THEN "archive" ELSE "get_pk_type"]
          /\ UNCHANGED <<cur, inputs>>
    /\ UNCHANGED <<catalog, objects, embDim, source, sidecar, queue, fails, dropped, ij,
                   srvVars, inVars>>

\* db::get_vectorize_job(pool, &job_name).await?
execute_job_get_job(w) ==
    /\ pc[w] = "get_job"
    /\ LET j == get_vectorize_job(cur[w].job_name)
       IN IF j = NoJob
          THEN execute_job_err(w)
          ELSE /\ job' = [job EXCEPT ![w] = j]
               /\ pc' = [pc EXCEPT ![w] = "get_pk_type"]
               /\ UNCHANGED <<cur, inputs>>
    /\ UNCHANGED <<catalog, objects, embDim, source, sidecar, queue, fails, dropped, ij,
                   srvVars, inVars>>

SrcColumns == {"id", "descr", "updated_at"}

\* information_schema.columns: the data type of a column, NotFound without the column
get_column_datatype(column) == IF column \in SrcColumns THEN "integer" ELSE "NotFound"

\* init::get_column_datatype(...).await?
execute_job_get_pk_type(w) ==
    /\ pc[w] = "get_pk_type"
    /\ IF get_column_datatype(job[w].primary_key) = "NotFound"
       THEN execute_job_err(w)
       ELSE /\ pc' = [pc EXCEPT ![w] = "fetch"]
            /\ UNCHANGED <<cur, job, inputs>>
    /\ UNCHANGED <<catalog, objects, embDim, source, sidecar, queue, fails, dropped, ij,
                   srvVars, inVars>>

\* SELECT pk::text, col FROM source WHERE pk = ANY($1::pk_type[]), then the Inputs
job_records(ids) ==
    {[record_id |-> PkText(k), inputs |-> Trim(source[k])] :
        k \in {x \in Keys : Present(x) /\ PkText(x) \in ids}}

execute_job_fetch(w) ==
    /\ pc[w] = "fetch"
    /\ inputs' = [inputs EXCEPT ![w] = job_records(cur[w].record_ids)]
    /\ pc' = [pc EXCEPT ![w] = "embed"]
    /\ UNCHANGED <<catalog, objects, embDim, source, sidecar, queue, fails, cur, job, dropped,
                   ij, srvVars, inVars>>

\* provider.generate_embedding(&embedding_request).await? succeeded
execute_job_embed(w) ==
    /\ pc[w] = "embed"
    /\ pc' = [pc EXCEPT ![w] = "upsert"]
    /\ UNCHANGED <<catalog, objects, embDim, source, sidecar, queue, fails, cur, job, inputs,
                   dropped, ij, srvVars, inVars>>

\* merge_input_output: each input paired with its embedding
paired_embeddings(w) ==
    {[pk |-> CastPk(r.record_id), embeddings |-> generate_embedding(job[w].model, r.inputs)] :
        r \in inputs[w]}

\* INSERT ... ON CONFLICT (pk) DO UPDATE SET embeddings = EXCLUDED.embeddings
upsert_embedding_table(S, P) == {r \in S : r.pk \notin {p.pk : p \in P}} \cup P

\* plain INSERT: the rows are added beside the ones already there
insert_embedding_table(S, P) == S \cup P

\* what the sidecar's constraints (foreign key, vector(D)) let through
UpsertAccepted(P) ==
    /\ create_embedding_table.fk # "none" => \A p \in P : Present(p.pk)
    /\ \A p \in P : Len(p.embeddings) = embDim

upsert_step_insert_only(w) ==
    /\ pc[w] = "upsert"
    /\ IF UpsertAccepted(paired_embeddings(w))
       THEN /\ sidecar' = insert_embedding_table(sidecar, paired_embeddings(w))
            /\ pc' = [pc EXCEPT ![w] = "archive"]
            /\ cur' = [cur EXCEPT ![w].upserted = TRUE]
            /\ UNCHANGED <<job, inputs>>
       ELSE /\ execute_job_err(w)
            /\ UNCHANGED sidecar
    /\ UNCHANGED <<catalog, objects, embDim, source, queue, fails, dropped, ij, srvVars, inVars>>

\* ops::upsert_embedding_table(...).await?
execute_job_upsert(w) ==
    /\ pc[w] = "upsert"
    /\ IF UpsertAccepted(paired_embeddings(w))
       THEN /\ sidecar' = upsert_embedding_table(sidecar, paired_embeddings(w))
            /\ pc' = [pc EXCEPT ![w] = "archive"]
            /\ cur' = [cur EXCEPT ![w].upserted = TRUE]
            /\ UNCHANGED <<job, inputs>>
       ELSE /\ execute_job_err(w)
            /\ UNCHANGED sidecar
    /\ UNCHANGED <<catalog, objects, embDim, source, queue, fails, dropped, ij, srvVars, inVars>>

\* a provider or SQL call of execute_job fails
execute_job_fail(w) ==
    /\ pc[w] \in ExecPcs
    /\ fails < MaxFails
    /\ fails' = fails + 1
    /\ execute_job_err(w)
    /\ UNCHANGED <<catalog, objects, embDim, source, sidecar, queue, dropped, ij, srvVars, inVars>>

DroppedBy(m) == IF should_execute(m.read_ct) \/ m.job_name # TheJob THEN {}
                ELSE {CastPk(t) : t \in m.record_ids}

\* queue.archive(queue_name, msg_id).await? ; Ok(Some(()))
poll_job_archive(w) ==
    /\ pc[w] = "archive"
    /\ queue' = [queue EXCEPT ![cur[w].msg_id].st = "archived"]
    /\ dropped' = dropped \cup DroppedBy(cur[w])
    /\ Return(w, "OkSome")
    /\ UNCHANGED <<catalog, objects, embDim, source, sidecar, fails, ij, srvVars, inVars>>

\* queue.archive fails
poll_job_archive_err(w) ==
    /\ pc[w] = "archive"
    /\ fails < MaxFails
    /\ fails' = fails + 1
    /\ Return(w, "Err")
    /\ UNCHANGED <<catalog, objects, embDim, source, sidecar, queue, dropped, ij, srvVars, inVars>>

\* tokio::time::sleep(poll_interval) is over
worker_sleep(w) ==
    /\ pc[w] = "sleep"
    /\ pc' = [pc EXCEPT ![w] = "read"]
    /\ UNCHANGED <<catalog, objects, embDim, source, sidecar, queue, fails, cur, job, inputs,
                   dropped, ij, srvVars, inVars>>

WorkerStep(w) ==
    \/ poll_job_read(w)
    \/ poll_job_read_none(w)
    \/ poll_job_read_err(w)
    \/ execute_job_get_job(w)
    \/ execute_job_get_pk_type(w)
    \/ execute_job_fetch(w)
    \/ execute_job_embed(w)
    \/ execute_job_upsert(w)
    \/ execute_job_fail(w)
    \/ poll_job_archive(w)
    \/ poll_job_archive_err(w)
    \/ worker_sleep(w)

\* the steps of a worker whose provider and database calls all answer
WorkerRun(w) ==
    \/ poll_job_read(w)
    \/ poll_job_read_none(w)
    \/ execute_job_get_job(w)
    \/ execute_job_get_pk_type(w)
    \/ execute_job_fetch(w)
    \/ execute_job_embed(w)
    \/ execute_job_upsert(w)
    \/ poll_job_archive(w)
    \/ worker_sleep(w)

Environment ==
    \/ \E k \in Keys, t \in Texts : InsertRow(k, t)
    \/ \E k \in Keys, t \in Texts : UpdateRow(k, t)
    \/ \E k \in Keys : DeleteRow(k)
    \/ CorruptSend
    \/ \E i \in 1..MaxMsgs : VtExpire(i)

(* ------------------------- identifiers in SQL ------------------------- *)

MaxLen == 2

\* bytes around the borders of [A-Za-z0-9_], and one byte of a multi-byte character
ByteSamples == {47, 48, 57, 58, 59, 64, 65, 90, 91, 95, 96, 97, 122, 123, 195}

\* the strings check_input is called with, as their bytes
Inputs == UNION {[1..n -> ByteSamples] : n \in 0..MaxLen}

\* u8::is_ascii_alphanumeric
is_ascii_alphanumeric(c) == c \in (48..57) \cup (65..90) \cup (97..122)

\* check_input: input.as_bytes().iter().all(|&c| c.is_ascii_alphanumeric() || c == b'_')
check_input(i) ==
    IF \A n \in 1..Len(i) : is_ascii_alphanumeric(i[n]) \/ i[n] = 95 THEN "Ok" ELSE "Err"

NoOp == [kind |-> "none", checked |-> {}, sql |-> <<>>, stored |-> {}, resp |-> "none"]

\* a call of check_input on the string
check_input_call ==
    /\ ci_result = "none"
    /\ ci_result' = check_input(ci_input)
    /\ UNCHANGED <<catalog, objects, embDim, source, sidecar, queue, fails, pc, cur, job, inputs,
                   dropped, ij, srvVars, ci_input, op, hs, sj, max_retries, tu, lock, tokens, px>>

\* initialize_job with the string as an identifier of the job request: the catalog
\* INSERT binds it, the DDL that follows interpolates it; check_input is not called.
\* The database accepts the DDL, or rejects it and the call returns its error.
initialize_job_sql ==
    /\ \E resp \in {"Ok", "Err"} :
          op' = [kind |-> "initialize_job", checked |-> {}, sql |-> <<{}, {ci_input}>>,
                 stored |-> IF resp = "Ok" THEN {ci_input} ELSE op.stored, resp |-> resp]
    /\ UNCHANGED <<catalog, objects, embDim, source, sidecar, queue, fails, pc, cur, job, inputs,
                   dropped, ij, srvVars, ci_input, ci_result, hs, sj, max_retries, tu, lock,
                   tokens, px>>

\* execute_job's record fetch: the query interpolates the identifiers of the catalog row
execute_job_sql ==
    /\ op.stored # {}
    /\ op' = [kind |-> "execute_job", checked |-> {}, sql |-> <<op.stored>>,
              stored |-> op.stored, resp |-> "Ok"]
    /\ UNCHANGED <<catalog, objects, embDim, source, sidecar, queue, fails, pc, cur, job, inputs,
                   dropped, ij, srvVars, ci_input, ci_result, hs, sj, max_retries, tu, lock,
                   tokens, px>>

\* search with the string as job_name and as a filter's column: check_input on each,
\* on a cache miss the catalog lookup (job_name bound as $1), then the hybrid search
\* query with them and the catalog row's identifiers interpolated
search_sql(miss) ==
    /\ op' = IF check_input(ci_input) = "Err"
             THEN [kind |-> "search", checked |-> {}, sql |-> <<>>,
                   stored |-> op.stored, resp |-> "Err"]
             ELSE [kind |-> "search", checked |-> {ci_input},
                   sql |-> IF miss THEN <<{}, {ci_input} \cup op.stored>>
                                      ELSE <<{ci_input} \cup op.stored>>,
                   stored |-> op.stored, resp |-> "Ok"]
    /\ UNCHANGED <<catalog, objects, embDim, source, sidecar, queue, fails, pc, cur, job, inputs,
                   dropped, ij, srvVars, ci_input, ci_result, hs, sj, max_retries, tu, lock,
                   tokens, px>>

(* ------------------------ the wire proxy ------------------------------ *)

\* #[arg(short, long, default_value = "30")] timeout: u64, in seconds
default_timeout == 30
\* the step of the clock, in seconds, and the time the clock runs to
Tick == 10
MaxClock == 50
MaxBytes == 2

Directions == {"client_to_postgres", "postgres_to_client"}
NoProxy == [handler |-> "off", task |-> [d \in Directions |-> "none"], elapsed |-> 0,
            bytes |-> [d \in Directions |-> 0]]

\* a JoinHandle is dropped: the task is detached and runs on
join_handle_drop(state) == state

\* listener.accept() returned a connection; handle_connection connects to the server
\* and spawns one io::copy task per direction
handle_connection ==
    /\ px.handler = "accepted"
    /\ px' = [px EXCEPT !.handler = "select", !.task = [d \in Directions |-> "running"]]
    /\ UNCHANGED <<catalog, objects, embDim, source, sidecar, queue, fails, pc, cur, job, inputs,
                   dropped, ij, srvVars, ci_input, ci_result, op, hs, sj, max_retries, tu, lock,
                   tokens>>

\* set_nodelay or TcpStream::connect(postgres_addr).await? failed: no task is spawned
handle_connection_err ==
    /\ px.handler = "accepted"
    /\ px' = [px EXCEPT !.handler = "returned"]
    /\ UNCHANGED <<catalog, objects, embDim, source, sidecar, queue, fails, pc, cur, job, inputs,
                   dropped, ij, srvVars, ci_input, ci_result, op, hs, sj, max_retries, tu, lock,
                   tokens>>

\* io::copy moves bytes of a direction
copy_bytes(d) ==
    /\ px.task[d] = "running"
    /\ px.bytes[d] < MaxBytes
    /\ px' = [px EXCEPT !.bytes[d] = @ + 1]
    /\ UNCHANGED <<catalog, objects, embDim, source, sidecar, queue, fails, pc, cur, job, inputs,
                   dropped, ij, srvVars, ci_input, ci_result, op, hs, sj, max_retries, tu, lock,
                   tokens>>

\* io::copy of a direction returns (end of stream or error) and its task ends
copy_returns(d) ==
    /\ px.task[d] = "running"
    /\ px' = [px EXCEPT !.task[d] = "done"]
    /\ UNCHANGED <<catalog, objects, embDim, source, sidecar, queue, fails, pc, cur, job, inputs,
                   dropped, ij, srvVars, ci_input, ci_result, op, hs, sj, max_retries, tu, lock,
                   tokens>>

\* tokio::select! on the two JoinHandles: the first task that ended completes it,
\* handle_connection returns Ok(()) and both handles are dropped
handle_connection_select ==
    /\ px.handler = "select"
    /\ \E d \in Directions : px.task[d] = "done"
    /\ px' = [px EXCEPT !.handler = "returned",
                        !.task = [d \in Directions |-> join_handle_drop(px.task[d])]]
    /\ UNCHANGED <<catalog, objects, embDim, source, sidecar, queue, fails, pc, cur, job, inputs,
                   dropped, ij, srvVars, ci_input, ci_result, op, hs, sj, max_retries, tu, lock,
                   tokens>>

\* timeout(config.timeout, handle_connection(..)) elapses: the future is dropped, and
\* with it the two JoinHandles it holds
handle_connection_with_timeout ==
    /\ px.handler \in {"accepted", "select"}
    /\ px.elapsed >= default_timeout
    /\ px' = [px EXCEPT !.handler = "timeout",
                        !.task = [d \in Directions |-> join_handle_drop(px.task[d])]]
    /\ UNCHANGED <<catalog, objects, embDim, source, sidecar, queue, fails, pc, cur, job, inputs,
                   dropped, ij, srvVars, ci_input, ci_result, op, hs, sj, max_retries, tu, lock,
                   tokens>>

\* time passes; the timer of a handler that is still running fires when it is due
clock_tick ==
    /\ px.handler # "off"
    /\ px.elapsed < MaxClock
    /\ px.handler \in {"accepted", "select"} => px.elapsed < default_timeout
    /\ px' = [px EXCEPT !.elapsed = @ + Tick]
    /\ UNCHANGED <<catalog, objects, embDim, source, sidecar, queue, fails, pc, cur, job, inputs,
                   dropped, ij, srvVars, ci_input, ci_result, op, hs, sj, max_retries, tu, lock,
                   tokens>>

(* ------------------- the server's job cache (jobmap) ------------------ *)

MaxWrites == 2
NumSearches == 2
MaxListenFails == 1
MaxBackoffFails == 8

\* let max_retry_delay = Duration::from_secs(60)
max_retry_delay == 60

CacheJobs == {TheJob, "docs"}
Searches == 1..NumSearches

\* the state of the pipeline, which the server's cache does not touch
pipeVars == <<objects, embDim, source, sidecar, queue, fails, pc, cur, job, inputs,
              dropped, ij>>

CatRow(name, m) == [job_name |-> name, primary_key |-> "id", model |-> m]

\* let key = std::mem::take(&mut item.job_name): the value keeps an empty job_name
take_job_name(row) == [row EXCEPT !.job_name = ""]

\* the map load_initial_job_cache and refresh_job_cache build from SELECT ... FROM vectorize.job
to_jobmap(all_jobs) == [n \in DOMAIN all_jobs |-> take_job_name(all_jobs[n])]

\* HashMap::insert
map_insert(m, key, value) == [n \in DOMAIN m \cup {key} |-> IF n = key THEN value ELSE m[n]]

\* the tasks that take the lock: the search handlers and the cache sync task
ListenerTask == 0
LockFree == [readers |-> {}, writer |-> {}]
Holds(task) == task \in lock.readers \cup lock.writer

\* a guard that is kept after the block it was taken in
guard_kept(l, task) == l

\* the guard goes out of scope at the end of its block: the lock is released
drop_guard(l, task) == [readers |-> l.readers \ {task}, writer |-> l.writer \ {task}]

\* jobmap.read().await returns: no task holds the write guard
jobmap_read(r) ==
    /\ sr[r].pc = "lookup"
    /\ ~Holds(r)
    /\ lock.writer = {}
    /\ lock' = [lock EXCEPT !.readers = @ \cup {r}]
    /\ UNCHANGED <<catalog, jobmap, trigger, ver, notifs, lst, retry_delay, sleeps, lfails,
                   lbudget, processed, sr, pipeVars, ci_input, ci_result, op, hs, sj,
                   max_retries, tu, tokens, px>>

\* jobmap.write().await returns, in the handler or in refresh_job_cache: no task
\* holds a guard
jobmap_write(task) ==
    /\ IF task = ListenerTask THEN lst.pc = "swap" ELSE sr[task].pc = "insert"
    /\ lock = LockFree
    /\ tokens = InitialTokens
    /\ px = NoProxy
    /\ lock' = [lock EXCEPT !.writer = {task}]
    /\ UNCHANGED <<catalog, jobmap, trigger, ver, notifs, lst, retry_delay, sleeps, lfails,
                   lbudget, processed, sr, pipeVars, ci_input, ci_result, op, hs, sj,
                   max_retries, tu, tokens, px>>

NoSearch == [pc |-> "idle", job_name |-> "", filters |-> {}, job |-> NoJob, from |-> "none",
             resp |-> "none", results |-> <<>>, did |-> {}]
NoListener == [pc |-> "off", all_jobs |-> EmptyCatalog, n |-> 0, listened |-> FALSE]

\* a notification whose payload is not JSON (any session may NOTIFY on the channel)
Undecodable == 0 - 1

\* the listener's connection has executed LISTEN vectorize_job_changes
Listening == lst.pc \in {"recv", "fetch", "swap"}

\* AppState::new has returned and requests are served
Serving == lst.pc \notin {"off", "load", "setup", "aborted"}

(* committed writes to vectorize.job; job_change_trigger notifies the sessions
   that listen at that moment *)
notify(write) ==
    /\ ver < MaxWrites
    /\ ver' = ver + 1
    /\ notifs' = IF trigger /\ Listening THEN Append(notifs, ver + 1) ELSE notifs
    /\ UNCHANGED <<jobmap, trigger, lst, retry_delay, sleeps, lfails, lbudget,
                   processed, sr, pipeVars, inVars>>

catalog_insert(name, m) ==
    /\ name \notin DOMAIN catalog
    /\ catalog' = map_insert(catalog, name, CatRow(name, m))
    /\ notify("INSERT")

catalog_update(name, m) ==
    /\ name \in DOMAIN catalog
    /\ catalog[name].model # m
    /\ catalog' = [catalog EXCEPT ![name].model = m]
    /\ notify("UPDATE")

catalog_delete(name) ==
    /\ name \in DOMAIN catalog
    /\ catalog' = [n \in DOMAIN catalog \ {name} |-> catalog[n]]
    /\ notify("DELETE")

CatalogWrite ==
    \/ \E name \in CacheJobs, m \in Models : catalog_insert(name, m)
    \/ \E name \in CacheJobs, m \in Models : catalog_update(name, m)
    \/ \E name \in CacheJobs : catalog_delete(name)

\* NOTIFY vectorize_job_changes, '<text that is not JSON>' reaches the listening session
notify_undecodable ==
    /\ Listening
    /\ \A i \in 1..Len(notifs) : notifs[i] # Undecodable
    /\ notifs' = Append(notifs, Undecodable)
    /\ UNCHANGED <<catalog, jobmap, trigger, ver, lst, retry_delay, sleeps, lfails, lbudget,
                   processed, sr, pipeVars, inVars>>

(* AppState::new and the cache sync task it spawns *)

\* let job_cache = load_initial_job_cache(&db_pool).await
load_initial_job_cache ==
    /\ lst.pc = "load"
    /\ jobmap' = to_jobmap(catalog)
    /\ lst' = [lst EXCEPT !.pc = "setup"]
    /\ UNCHANGED <<catalog, trigger, ver, notifs, retry_delay, sleeps, lfails, lbudget,
                   processed, sr, pipeVars, inVars>>

\* load_initial_job_cache(&db_pool).await.map_err(..)? : AppState::new returns the Err
\* and main's expect("Failed to initialize application state") ends the process
load_initial_job_cache_err ==
    /\ lst.pc = "load"
    /\ lfails < lbudget
    /\ lfails' = lfails + 1
    /\ lst' = [lst EXCEPT !.pc = "aborted"]
    /\ UNCHANGED <<catalog, jobmap, trigger, ver, notifs, retry_delay, sleeps, lbudget,
                   processed, sr, pipeVars, inVars>>

\* setup_job_change_notifications: CREATE FUNCTION notify_job_change, CREATE TRIGGER
setup_job_change_notifications ==
    /\ lst.pc = "setup"
    /\ trigger' = TRUE
    /\ lst' = [lst EXCEPT !.pc = "sleep1"]
    /\ UNCHANGED <<catalog, jobmap, ver, notifs, retry_delay, sleeps, lfails, lbudget,
                   processed, sr, pipeVars, inVars>>

\* if let Err(e) = setup_job_change_notifications(..) { warn!(..) }: startup goes on
setup_job_change_notifications_err ==
    /\ lst.pc = "setup"
    /\ lfails < lbudget
    /\ lfails' = lfails + 1
    /\ lst' = [lst EXCEPT !.pc = "sleep1"]
    /\ UNCHANGED <<catalog, jobmap, trigger, ver, notifs, retry_delay, sleeps, lbudget,
                   processed, sr, pipeVars, inVars>>

\* the spawned task: sleep 1 s, resolve the address, start_cache_sync_listener
start_cache_sync_listener_task ==
    /\ lst.pc = "sleep1"
    /\ lst' = [lst EXCEPT !.pc = "connect"]
    /\ UNCHANGED <<catalog, jobmap, trigger, ver, notifs, retry_delay, sleeps, lfails,
                   lbudget, processed, sr, pipeVars, inVars>>

\* PgListener::connect_with(..).await?; listener.listen("vectorize_job_changes").await?
try_listen_for_changes_connect ==
    /\ lst.pc = "connect"
    /\ notifs' = <<>>
    /\ lst' = [lst EXCEPT !.pc = "recv", !.listened = TRUE]
    /\ UNCHANGED <<catalog, jobmap, trigger, ver, retry_delay, sleeps, lfails, lbudget,
                   processed, sr, pipeVars, inVars>>

\* listener.recv().await returned Ok(notification); a payload serde_json cannot parse
\* only skips the info! line, refresh_job_cache is called all the same
try_listen_for_changes_recv ==
    /\ lst.pc = "recv"
    /\ notifs # <<>>
    /\ lst' = [lst EXCEPT !.pc = "fetch", !.n = Head(notifs)]
    /\ notifs' = Tail(notifs)
    /\ UNCHANGED <<catalog, jobmap, trigger, ver, retry_delay, sleeps, lfails, lbudget,
                   processed, sr, pipeVars, inVars>>

\* connect, listen or recv returned Err: try_listen_for_changes returns it, the
\* connection and what was queued on it are gone
try_listen_for_changes_err ==
    /\ lst.pc \in {"connect", "recv"}
    /\ lfails < lbudget
    /\ lfails' = lfails + 1
    /\ notifs' = <<>>
    /\ lst' = [lst EXCEPT !.pc = "backoff"]
    /\ UNCHANGED <<catalog, jobmap, trigger, ver, retry_delay, sleeps, lbudget,
                   processed, sr, pipeVars, inVars>>

\* a delay that doubles without a cap
next_retry_delay_uncapped(d) == d * 2

\* retry_delay = std::cmp::min(retry_delay * 2, max_retry_delay)
next_retry_delay(d) == Min(d * 2, max_retry_delay)

\* start_cache_sync_listener's Err arm: sleep(retry_delay), double it, loop. The Ok arm
\* (retry_delay = 1 s) is never taken: try_listen_for_changes only leaves its loop
\* with return Err(..)
start_cache_sync_listener_retry ==
    /\ lst.pc = "backoff"
    /\ sleeps' = Append(sleeps, retry_delay)
    /\ retry_delay' = next_retry_delay(retry_delay)
    /\ lst' = [lst EXCEPT !.pc = "connect", !.listened = FALSE]
    /\ UNCHANGED <<catalog, jobmap, trigger, ver, notifs, lfails, lbudget,
                   processed, sr, pipeVars, inVars>>

\* refresh_job_cache: SELECT ... FROM vectorize.job
refresh_job_cache_fetch ==
    /\ lst.pc = "fetch"
    /\ lst' = [lst EXCEPT !.pc = "swap", !.all_jobs = catalog]
    /\ UNCHANGED <<catalog, jobmap, trigger, ver, notifs, retry_delay, sleeps, lfails,
                   lbudget, processed, sr, pipeVars, inVars>>

\* a refresh whose error ends the session like a recv error
refresh_job_cache_err_returns ==
    /\ lst.pc = "fetch"
    /\ lfails < lbudget
    /\ lfails' = lfails + 1
    /\ notifs' = <<>>
    /\ lst' = [lst EXCEPT !.pc = "backoff", !.n = 0]
    /\ UNCHANGED <<catalog, jobmap, trigger, ver, retry_delay, sleeps, lbudget,
                   processed, sr, pipeVars, inVars>>

\* the SELECT failed: error!("Failed to refresh job cache"), back to recv
refresh_job_cache_err ==
    /\ lst.pc = "fetch"
    /\ lfails < lbudget
    /\ lfails' = lfails + 1
    /\ lst' = [lst EXCEPT !.pc = "recv", !.n = 0]
    /\ UNCHANGED <<catalog, jobmap, trigger, ver, notifs, retry_delay, sleeps, lbudget,
                   processed, sr, pipeVars, inVars>>

\* a refresh that merges what it fetched into the map
refresh_job_cache_merge(old, all_jobs) ==
    [n \in DOMAIN old \cup DOMAIN all_jobs |->
        IF n \in DOMAIN all_jobs THEN take_job_name(all_jobs[n]) ELSE old[n]]

\* *jobmap_write = jobmap
refresh_job_cache_replace(old, all_jobs) == to_jobmap(all_jobs)

\* refresh_job_cache: the swap under the write lock
refresh_job_cache_swap ==
    /\ lst.pc = "swap"
    /\ jobmap' = refresh_job_cache_replace(jobmap, lst.all_jobs)
    /\ processed' = processed \cup {lst.n}
    /\ lst' = [lst EXCEPT !.pc = "recv", !.all_jobs = EmptyCatalog, !.n = 0]
    /\ lock' = drop_guard(lock, ListenerTask)
    /\ UNCHANGED <<catalog, trigger, ver, notifs, retry_delay, sleeps, lfails, lbudget,
                   sr, pipeVars, ci_input, ci_result, op, hs, sj, max_retries, tu, tokens, px>>

\* the steps of the startup and the cache sync task whose calls all answer
ListenerRun ==
    \/ load_initial_job_cache
    \/ setup_job_change_notifications
    \/ start_cache_sync_listener_task
    \/ try_listen_for_changes_connect
    \/ try_listen_for_changes_recv
    \/ start_cache_sync_listener_retry
    \/ refresh_job_cache_fetch
    \/ refresh_job_cache_swap

ListenerFail ==
    \/ load_initial_job_cache_err
    \/ setup_job_change_notifications_err
    \/ try_listen_for_changes_err
    \/ refresh_job_cache_err

(* --------------------------- initialize_job --------------------------- *)

NoReq == [model |-> "", primary_key |-> "", variant |-> ""]
NoTx == [catalog |-> EmptyCatalog, objects |-> {}, embDim |-> 0]
NoCall == [pc |-> "idle", n |-> 0, req |-> NoReq, tx |-> NoTx, snap |-> NoTx, res |-> "none"]

\* what is committed in the database
Committed == [catalog |-> catalog, objects |-> objects, embDim |-> embDim]

\* the job requests: core's initialize_job (tokens sidecar, upsert of the catalog row)
\* and the server's (plain INSERT, no tokens sidecar)
Requests == [model : Models, primary_key : {"id", "nope"}, variant : {"core", "server"}]

\* the statements initialize_job executes on its transaction, in order
Statements(variant) ==
    IF variant = "core"
    THEN <<"embeddings_table", "search_tokens_table", "project_view", "hnsw_cos_idx",
           "fts_idx", "search_tokens_trigger", "trigger_handler", "insert_trigger",
           "update_trigger">>
    ELSE <<"embeddings_table", "project_view", "hnsw_cos_idx",
           "trigger_handler", "insert_trigger", "update_trigger">>

\* a view created with OR REPLACE: no statement fails on an existing object
StatementNeverFails(stmt, objs) == FALSE

\* CREATE VIEW has no IF NOT EXISTS / OR REPLACE: it fails on an existing view
StatementFails(stmt, objs) == stmt = "project_view" /\ stmt \in objs

\* the connection the catalog INSERT runs on: .fetch_one(&mut *tx)
catalog_insert_on_pool == "pool"

catalog_insert_on == "tx"

TxPcs == {"upsert", "model_dim", "pkey_type", "ddl", "commit"}
PostPcs == {"scan", "tokens"}

\* an early return: tx is dropped before commit (rollback), or the job is already committed
Failed(kind) ==
    ij' = [ij EXCEPT !.pc = "idle", !.tx = NoTx, !.res = kind]

\* let mut tx = pool.begin().await?
initialize_job_begin(r) ==
    /\ ij.pc = "idle"
    /\ ij' = [pc |-> "upsert", n |-> 0, req |-> r, tx |-> Committed,
              snap |-> Committed, res |-> "none"]
    /\ UNCHANGED <<catalog, objects, embDim, source, sidecar, queue, fails,
                   pc, cur, job, inputs, dropped, srvVars, inVars>>

\* INSERT INTO vectorize.job ... [ON CONFLICT (job_name) DO UPDATE ...] RETURNING id
initialize_job_upsert ==
    /\ ij.pc = "upsert"
    /\ LET row == JobRow(ij.req.model, ij.req.primary_key)
           new == [n \in {TheJob} |-> row]
       IN IF ij.req.variant = "server" /\ TheJob \in DOMAIN ij.tx.catalog
          THEN Failed("ErrTx") /\ UNCHANGED catalog
          ELSE IF catalog_insert_on = "tx"
               THEN /\ ij' = [ij EXCEPT !.pc = "model_dim", !.tx.catalog = new]
                    /\ UNCHANGED catalog
               ELSE /\ ij' = [ij EXCEPT !.pc = "model_dim"]
                    /\ catalog' = new
    /\ UNCHANGED <<objects, embDim, source, sidecar, queue, fails,
                   pc, cur, job, inputs, dropped, srvVars, inVars>>

\* provider.model_dim(&job_request.model.api_name()).await? succeeded
initialize_job_model_dim ==
    /\ ij.pc = "model_dim"
    /\ ij' = [ij EXCEPT !.pc = "pkey_type"]
    /\ UNCHANGED <<catalog, objects, embDim, source, sidecar, queue, fails,
                   pc, cur, job, inputs, dropped, srvVars, inVars>>

\* get_column_datatype(pool, schema, table, primary_key).await?
initialize_job_pkey_type ==
    /\ ij.pc = "pkey_type"
    /\ IF get_column_datatype(ij.req.primary_key) = "NotFound"
       THEN Failed("ErrTx")
       ELSE ij' = [ij EXCEPT !.pc = "ddl", !.n = 1]
    /\ UNCHANGED <<catalog, objects, embDim, source, sidecar, queue, fails,
                   pc, cur, job, inputs, dropped, srvVars, inVars>>

\* sqlx::query(&q).execute(&mut *tx).await? for the next statement
initialize_job_ddl ==
    /\ ij.pc = "ddl"
    /\ LET stmts == Statements(ij.req.variant)
           stmt == stmts[ij.n]
       IN IF StatementFails(stmt, ij.tx.objects)
          THEN Failed("ErrTx")
          ELSE ij' = [ij EXCEPT
                        !.tx.objects = @ \cup {stmt},
                        \* CREATE TABLE IF NOT EXISTS ... embeddings vector(D)
                        !.tx.embDim = IF stmt = "embeddings_table" /\ stmt \notin ij.tx.objects
                                      THEN model_dim(ij.req.model) ELSE @,
                        !.n = IF ij.n = Len(stmts) THEN 0 ELSE ij.n + 1,
                        !.pc = IF ij.n = Len(stmts) THEN "commit" ELSE "ddl"]
    /\ UNCHANGED <<catalog, objects, embDim, source, sidecar, queue, fails,
                   pc, cur, job, inputs, dropped, srvVars, inVars>>

\* tx.commit().await?
initialize_job_commit ==
    /\ ij.pc = "commit"
    /\ catalog' = IF catalog_insert_on = "tx" THEN ij.tx.catalog ELSE catalog
    /\ objects' = ij.tx.objects
    /\ embDim' = ij.tx.embDim
    /\ ij' = [ij EXCEPT !.pc = "scan", !.tx = NoTx]
    /\ UNCHANGED <<source, sidecar, queue, fails, pc, cur, job, inputs, dropped, srvVars, inVars>>

\* a scan that runs before tx.commit()
initialize_job_scan_in_tx ==
    /\ ij.pc = "commit"
    /\ Len(queue) < MaxMsgs
    /\ queue' = scan_job(queue)
    /\ UNCHANGED <<catalog, objects, embDim, source, sidecar, fails,
                   pc, cur, job, inputs, dropped, ij, srvVars, inVars>>

\* scan_job(pool, job_request).await?
initialize_job_scan ==
    /\ ij.pc = "scan"
    /\ Len(queue) < MaxMsgs
    /\ queue' = scan_job(queue)
    /\ ij' = IF ij.req.variant = "core"
             THEN [ij EXCEPT !.pc = "tokens"]
             ELSE [ij EXCEPT !.pc = "idle", !.res = "Ok"]
    /\ UNCHANGED <<catalog, objects, embDim, source, sidecar, fails,
                   pc, cur, job, inputs, dropped, srvVars, inVars>>

\* INSERT INTO vectorize._search_tokens_<job> ... ON CONFLICT ... ; Ok(job_id)
initialize_job_tokens ==
    /\ ij.pc = "tokens"
    /\ tokens' = populate_search_tokens(tokens)
    /\ ij' = [ij EXCEPT !.pc = "idle", !.res = "Ok"]
    /\ UNCHANGED <<catalog, objects, embDim, source, sidecar, queue, fails, pc, cur, job, inputs,
                   dropped, srvVars, ci_input, ci_result, op, hs, sj, max_retries, tu, lock, px>>

\* a provider or database call of initialize_job fails
initialize_job_fail ==
    /\ ij.pc \in TxPcs \cup PostPcs
    /\ fails < MaxFails
    /\ fails' = fails + 1
    /\ Failed(IF ij.pc \in TxPcs THEN "ErrTx" ELSE "ErrPost")
    /\ UNCHANGED <<catalog, objects, embDim, source, sidecar, queue,
                   pc, cur, job, inputs, dropped, srvVars, inVars>>

JobStep ==
    \/ \E r \in Requests : initialize_job_begin(r)
    \/ initialize_job_upsert
    \/ initialize_job_model_dim
    \/ initialize_job_pkey_type
    \/ initialize_job_ddl
    \/ initialize_job_commit
    \/ initialize_job_scan
    \/ initialize_job_tokens
    \/ initialize_job_fail

(* ---------------------------- hybrid search --------------------------- *)

NumDocs == 3
MaxLimit == 2
MaxWindow == 3
MaxFilterLen == 5

\* the source rows of the searched table; a row's id is its number
Docs == 1..NumDocs

\* the characters of the filter strings under test
FilterChars == {"e", "g", "l", "q", "t", ".", "1"}
FilterStrings == UNION {[1..n -> FilterChars] : n \in 0..MaxFilterLen}

FilterOperator == {"Equal", "GreaterThan", "GreaterThanOrEqual", "LessThan", "LessThanOrEqual"}

\* FilterOperator::to_sql
to_sql(operator) ==
    CASE operator = "Equal" -> "="
      [] operator = "GreaterThan" -> ">"
      [] operator = "GreaterThanOrEqual" -> ">="
      [] operator = "LessThan" -> "<"
      [] operator = "LessThanOrEqual" -> "<="

\* the comparison the database makes for a rendered operator
Compare(sql, a, b) ==
    CASE sql = "=" -> a = b
      [] sql = ">" -> a > b
      [] sql = ">=" -> a >= b
      [] sql = "<" -> a < b
      [] sql = "<=" -> a <= b

\* a search for the last occurrence of the character
rfind(s, c) ==
    IF \E i \in 1..Len(s) : s[i] = c
    THEN CHOOSE i \in 1..Len(s) : s[i] = c /\ \A j \in (i + 1)..Len(s) : s[j] # c
    ELSE 0

\* str::find(char): the position of the first occurrence, 0 for None
find(s, c) ==
    IF \E i \in 1..Len(s) : s[i] = c
    THEN CHOOSE i \in 1..Len(s) : s[i] = c /\ \A j \in 1..(i - 1) : s[j] # c
    ELSE 0

NoFilterValue == [ok |-> FALSE, operator |-> "none", value |-> <<>>]

\* FilterValueVisitor::visit_str
visit_str(value) ==
    LET dot_pos == find(value, ".") IN
    IF dot_pos # 0
    THEN LET operator_str == SubSeq(value, 1, dot_pos - 1)
             val == SubSeq(value, dot_pos + 1, Len(value)) IN
         CASE operator_str = <<"e", "q">> ->
                  [ok |-> TRUE, operator |-> "Equal", value |-> val]
           [] operator_str = <<"g", "t">> ->
                  [ok |-> TRUE, operator |-> "GreaterThan", value |-> val]
           [] operator_str = <<"g", "t", "e">> ->
                  [ok |-> TRUE, operator |-> "GreaterThanOrEqual", value |-> val]
           [] operator_str = <<"l", "t">> ->
                  [ok |-> TRUE, operator |-> "LessThan", value |-> val]
           [] operator_str = <<"l", "t", "e">> ->
                  [ok |-> TRUE, operator |-> "LessThanOrEqual", value |-> val]
           [] OTHER -> NoFilterValue
    ELSE [ok |-> TRUE, operator |-> "Equal", value |-> value]

\* the bytes of a filter value, for check_input
FilterBytes(s) ==
    [i \in 1..Len(s) |-> CASE s[i] = "." -> 46 [] s[i] = "1" -> 49
                           [] s[i] = "e" -> 101 [] s[i] = "g" -> 103 [] s[i] = "l" -> 108
                           [] s[i] = "q" -> 113 [] s[i] = "t" -> 116]

\* the number a bound value stands for when the database compares it with the id
\* column, NotANumber when it is not the text of an integer
NotANumber == 0 - 1
ValueOf(s) == IF s = <<"1">> THEN 1 ELSE NotANumber

\* FilterValue::to_legacy_filter_value: query::FilterValue::String(self.value.clone())
to_legacy_filter_value(f) == f.value

\* legacy_filters: column -> legacy value, for the filters of the request
legacy_filters(filters) == [c \in DOMAIN filters |-> to_legacy_filter_value(filters[c])]

\* the rows both candidate subqueries keep: hybrid_search_query is handed values
\* without operators and compares each column with its bound value for equality
eligible(legacy) == {d \in Docs : \A c \in DOMAIN legacy : Compare("=", d, ValueOf(legacy[c]))}

Perms(S) == {f \in [1..Cardinality(S) -> S] : \A i, j \in 1..Cardinality(S) : i # j => f[i] # f[j]}
Position(order, d) == CHOOSE i \in 1..Len(order) : order[i] = d

\* row_number() OVER (ORDER BY ..) over the eligible rows, in the given order
row_number(order, E, d) == Cardinality({e \in E : Position(order, e) <= Position(order, d)})

\* ... LIMIT window_size: the rows of a candidate subquery
candidates(order, E, window_size) == {d \in E : row_number(order, E, d) <= window_size}

\* a rank of 0 for a row the subquery does not have
coalesce_zero(order, E, window_size, d) ==
    IF d \in candidates(order, E, window_size) THEN row_number(order, E, d) ELSE 0

\* COALESCE(rank, window_size + 1) after the full outer join
coalesce_rank(order, E, window_size, d) ==
    IF d \in candidates(order, E, window_size) THEN row_number(order, E, d) ELSE window_size + 1

\* the RRF score of a row as a fraction <<numerator, denominator>>:
\* semantic_wt / (rrf_k + sem_rank) + fts_wt / (rrf_k + fts_rank)
rrf_score(rrf_k, semantic_wt, fts_wt, sem_rank, fts_rank) ==
    <<semantic_wt * (rrf_k + fts_rank) + fts_wt * (rrf_k + sem_rank),
      (rrf_k + sem_rank) * (rrf_k + fts_rank)>>

ScoreLess(a, b) == a[1] * b[2] < b[1] * a[2]

\* LIMIT limit
limit_rows(rows, limit) == SubSeq(rows, 1, Min(limit, Len(rows)))

(* hybrid_search_query and its execution: the rows of the statement of section 4.H,
   for the index contents ix = [sem, fts, tie]: the order of the rows by cosine
   distance to the query's embedding under each model, their order by ts_rank, and
   the order in which the executor yields rows of equal score *)
hybrid_search_query(ix, model, window_size, limit, rrf_k, semantic_wt, fts_wt, legacy) ==
    LET E == eligible(legacy)
        joined == candidates(ix.sem[model], E, window_size)
                      \cup candidates(ix.fts, E, window_size)
        score(d) == rrf_score(rrf_k, semantic_wt, fts_wt,
                              coalesce_rank(ix.sem[model], E, window_size, d),
                              coalesce_rank(ix.fts, E, window_size, d))
        before(a, b) == \/ ScoreLess(score(b), score(a))
                        \/ /\ ~ScoreLess(score(a), score(b))
                           /\ Position(ix.tie, a) < Position(ix.tie, b)
        ordered == CHOOSE s \in Perms(joined) :
                       \A i, j \in 1..Len(s) : i < j => before(s[i], s[j])
    IN limit_rows(ordered, limit)

Reverse(s) == [i \in 1..Len(s) |-> s[Len(s) + 1 - i]]

\* the index contents the searches of the cache model run on
DefaultIndex ==
    LET byId == [i \in 1..NumDocs |-> i] IN
    [sem |-> [m \in Models |-> IF m = "m1" THEN byId ELSE Reverse(byId)],
     fts |-> [i \in 1..NumDocs |-> IF i = 1 THEN 2 ELSE IF i = 2 THEN 1 ELSE i],
     tie |-> byId]

\* default_rrf_k, default_semantic_wt, default_fts_wt
default_rrf_k == 60
default_semantic_wt == 1
default_fts_wt == 1

EmptyFilters == [c \in {} |-> NoFilterValue]

\* the request has no filter argument
NoArg == <<"-">>
NoHs == [pc |-> "off", arg |-> NoArg, filters |-> EmptyFilters, ix |-> DefaultIndex,
         model |-> "m1", limit |-> MaxLimit, window_size |-> MaxWindow,
         rrf_k |-> default_rrf_k, semantic_wt |-> default_semantic_wt,
         fts_wt |-> default_fts_wt, resp |-> "none", results |-> <<>>]

\* Query<SearchRequest>: the flattened filters are deserialized with visit_str; a
\* request without a filter has none
search_deserialize ==
    /\ hs.pc = "new"
    /\ hs' = IF hs.arg = NoArg
             THEN [hs EXCEPT !.pc = "check"]
             ELSE IF visit_str(hs.arg).ok
                  THEN [hs EXCEPT !.pc = "check",
                                  !.filters = [c \in {"id"} |-> visit_str(hs.arg)]]
                  ELSE [hs EXCEPT !.pc = "done", !.resp = "BadRequest"]
    /\ UNCHANGED <<catalog, objects, embDim, source, sidecar, queue, fails, pc, cur, job, inputs,
                   dropped, ij, srvVars, ci_input, ci_result, op, sj, max_retries, tu, lock,
                   tokens, px>>

\* query::check_input(key)?; query::check_input(&value.value)?
search_check_input ==
    /\ hs.pc = "check"
    /\ hs' = IF \A c \in DOMAIN hs.filters :
                    check_input(FilterBytes(hs.filters[c].value)) = "Ok"
             THEN [hs EXCEPT !.pc = "query"]
             ELSE [hs EXCEPT !.pc = "done", !.resp = "Err"]
    /\ UNCHANGED <<catalog, objects, embDim, source, sidecar, queue, fails, pc, cur, job, inputs,
                   dropped, ij, srvVars, ci_input, ci_result, op, sj, max_retries, tu, lock,
                   tokens, px>>

\* legacy_filters, hybrid_search_query, bind, fetch_all, the JSON array of the rows;
\* the database rejects a value that is not the text of a number
search_fetch_all ==
    /\ hs.pc = "query"
    /\ LET legacy == legacy_filters(hs.filters) IN
       hs' = IF \E c \in DOMAIN legacy : ValueOf(legacy[c]) = NotANumber
             THEN [hs EXCEPT !.pc = "done", !.resp = "Err"]
             ELSE [hs EXCEPT !.pc = "done", !.resp = "Ok",
                             !.results = hybrid_search_query(hs.ix, hs.model,
                                             hs.window_size, hs.limit, hs.rrf_k,
                                             hs.semantic_wt, hs.fts_wt, legacy)]
    /\ UNCHANGED <<catalog, objects, embDim, source, sidecar, queue, fails, pc, cur, job, inputs,
                   dropped, ij, srvVars, ci_input, ci_result, op, sj, max_retries, tu, lock,
                   tokens, px>>

\* the name of the row the handler holds
query_job_name_of_row(payload_job_name, vectorizejob) == vectorizejob.job_name

\* &payload.job_name, the name hybrid_search_query interpolates into the relations
query_job_name(payload_job_name, vectorizejob) == payload_job_name

\* the rows of a request with the default parameters and no filter, for the query's
\* embedding under each model
DefaultRows ==
    [m \in Models |-> hybrid_search_query(DefaultIndex, m, MaxWindow, MaxLimit,
                                          default_rrf_k, default_semantic_wt,
                                          default_fts_wt, EmptyFilters)]

\* the rest of the handler: the query's embedding under the row's model, the hybrid
\* search on the relations of the job; no rows when they do not exist
search_results(payload_job_name, vectorizejob) ==
    IF query_job_name(payload_job_name, vectorizejob) \in CacheJobs
    THEN DefaultRows[vectorizejob.model]
    ELSE <<>>

(* GET /search: the job lookup at the head of the handler *)

\* the identifiers a request may carry: job names, filter columns, filter values
BadName == "pro;ds"
RequestNames == CacheJobs \cup {BadName}
RequestFilters == {{}, {<<"id", "1">>}, {<<"i;", "1">>}, {<<"id", "1'">>}}

\* str::as_bytes
as_bytes(s) ==
    CASE s = "prods" -> <<112, 114, 111, 100, 115>>
      [] s = "docs" -> <<100, 111, 99, 115>>
      [] s = "pro;ds" -> <<112, 114, 111, 59, 100, 115>>
      [] s = "id" -> <<105, 100>>
      [] s = "i;" -> <<105, 59>>
      [] s = "1" -> <<49>>
      [] s = "1'" -> <<49, 39>>

\* a handler that checks the job name only
search_check_inputs_job_name_only(name, filters) == check_input(as_bytes(name))

\* query::check_input(&payload.job_name)?; for (key, value) in &payload.filters
\* { query::check_input(key)?; query::check_input(&value.value)?; }
search_check_inputs(name, filters) ==
    IF /\ check_input(as_bytes(name)) = "Ok"
       /\ \A f \in filters : check_input(as_bytes(f[1])) = "Ok" /\ check_input(as_bytes(f[2])) = "Ok"
    THEN "Ok" ELSE "Err"

\* the request arrives: the head of the handler checks its identifiers and returns
\* the error of the first that fails
search_request(r, name, filters) ==
    /\ Serving
    /\ sr[r].pc = "idle"
    /\ sr' = IF search_check_inputs(name, filters) = "Ok"
             THEN [sr EXCEPT ![r] = [pc |-> "lookup", job_name |-> name, filters |-> filters,
                                     job |-> NoJob, from |-> "none", resp |-> "none",
                                     results |-> <<>>, did |-> {}]]
             ELSE [sr EXCEPT ![r] = [pc |-> "idle", job_name |-> name, filters |-> filters,
                                     job |-> NoJob, from |-> "none", resp |-> "Err",
                                     results |-> <<>>, did |-> {}]]
    /\ UNCHANGED <<catalog, jobmap, trigger, ver, notifs, lst, retry_delay, sleeps, lfails,
                   lbudget, processed, pipeVars, inVars>>

\* the request arrives; check_input(&payload.job_name) passes for a job's name
search_begin(r, name) == search_request(r, name, {})

\* jobmap.read().await; job_cache.get(&payload.job_name).cloned()
search_lookup(r) ==
    /\ sr[r].pc = "lookup"
    /\ sr' = IF sr[r].job_name \in DOMAIN jobmap
             THEN [sr EXCEPT ![r].pc = "respond", ![r].job = jobmap[sr[r].job_name],
                             ![r].from = "cache"]
             ELSE [sr EXCEPT ![r].pc = "dbread"]
    /\ lock' = drop_guard(lock, r)
    /\ UNCHANGED <<catalog, jobmap, trigger, ver, notifs, lst, retry_delay, sleeps, lfails,
                   lbudget, processed, pipeVars, ci_input, ci_result, op, hs, sj, max_retries,
                   tu, tokens, px>>

\* get_vectorize_job(&pool, &payload.job_name).await? : the row, or NotFound (404)
search_get_vectorize_job(r) ==
    /\ sr[r].pc = "dbread"
    /\ sr' = IF sr[r].job_name \in DOMAIN catalog
             THEN [sr EXCEPT ![r].pc = "insert", ![r].job = catalog[sr[r].job_name],
                             ![r].from = "db"]
             ELSE [sr EXCEPT ![r].pc = "idle", ![r].from = "db", ![r].resp = "NotFound"]
    /\ UNCHANGED <<catalog, jobmap, trigger, ver, notifs, lst, retry_delay, sleeps, lfails,
                   lbudget, processed, pipeVars, inVars>>

\* a handler that answers from the database and leaves the cache alone
write_through_skipped(m, key, value) == m

\* jobmap.write().await; job_cache.insert(payload.job_name.clone(), job.clone())
write_through(m, key, value) == map_insert(m, key, value)

search_insert(r) ==
    /\ sr[r].pc = "insert"
    /\ jobmap' = write_through(jobmap, sr[r].job_name, sr[r].job)
    /\ sr' = [sr EXCEPT ![r].pc = "respond", ![r].did = @ \cup {"insert"}]
    /\ lock' = drop_guard(lock, r)
    /\ UNCHANGED <<catalog, trigger, ver, notifs, lst, retry_delay, sleeps, lfails, lbudget,
                   processed, pipeVars, ci_input, ci_result, op, hs, sj, max_retries, tu, tokens,
                   px>>

\* the rest of the handler (embed the query, run the hybrid search) and the response
search_respond(r) ==
    /\ sr[r].pc = "respond"
    /\ sr' = [sr EXCEPT ![r].pc = "idle", ![r].resp = "Ok", ![r].did = @ \cup {"embed"},
                         ![r].results = search_results(sr[r].job_name, sr[r].job)]
    /\ UNCHANGED <<catalog, jobmap, trigger, ver, notifs, lst, retry_delay, sleeps, lfails,
                   lbudget, processed, pipeVars, inVars>>

SearchStep(r) ==
    \/ \E name \in CacheJobs : search_begin(r, name)
    \/ search_lookup(r)
    \/ search_get_vectorize_job(r)
    \/ search_insert(r)
    \/ search_respond(r)

\* a handler that has taken a request runs to its response
SearchRun(r) ==
    \/ search_lookup(r)
    \/ search_get_vectorize_job(r)
    \/ search_insert(r)
    \/ search_respond(r)

(* initial values *)

\* no server is running
ServerOff ==
    /\ jobmap = EmptyCatalog
    /\ trigger = FALSE
    /\ ver = 0
    /\ notifs = <<>>
    /\ lst = NoListener
    /\ retry_delay = 1
    /\ sleeps = <<>>
    /\ lfails = 0
    /\ lbudget = 0
    /\ processed = {}
    /\ sr = [r \in Searches |-> NoSearch]

\* no identifier is under test
InputsOff ==
    /\ ci_input = <<>>
    /\ ci_result = "none"
    /\ op = NoOp
    /\ hs = NoHs
    /\ sj = NoScan
    /\ max_retries = MaxRetries
    /\ tu = NoTu
    /\ lock = LockFree
    /\ tokens = InitialTokens
    /\ px = NoProxy

\* no job and no rows
PipelineOff ==
    /\ objects = {}
    /\ embDim = 0
    /\ source = [k \in Keys |-> NoRow]
    /\ sidecar = {}
    /\ queue = <<>>
    /\ fails = 0
    /\ pc = [w \in Workers |-> "read"]
    /\ cur = [w \in Workers |-> NoMsg]
    /\ job = [w \in Workers |-> NoJob]
    /\ inputs = [w \in Workers |-> {}]
    /\ dropped = {}
    /\ ij = NoCall

SourceWrite ==
    \/ \E k \in Keys, t \in Texts : InsertRow(k, t)
    \/ \E k \in Keys, t \in Texts : UpdateRow(k, t)
    \/ \E k \in Keys : DeleteRow(k)

\* a database with a source table and no job
InitJob ==
    /\ catalog = EmptyCatalog
    /\ objects = {}
    /\ embDim = 0
    /\ source \in [Keys -> {NoRow, "a "}]
    /\ sidecar = {}
    /\ queue = <<>>
    /\ fails = 0
    /\ pc = [w \in Workers |-> "read"]
    /\ cur = [w \in Workers |-> NoMsg]
    /\ job = [w \in Workers |-> NoJob]
    /\ inputs = [w \in Workers |-> {}]
    /\ dropped = {}
    /\ ij = NoCall
    /\ ServerOff
    /\ InputsOff

\* scan_job called once more for the committed job, by whoever retries steps 8-9
scan_job_again ==
    /\ ij.pc = "idle"
    /\ TheJob \in DOMAIN catalog
    /\ Len(queue) < MaxMsgs
    /\ queue' = scan_job(queue)
    /\ UNCHANGED <<catalog, objects, embDim, source, sidecar, fails,
                   pc, cur, job, inputs, dropped, ij, srvVars, inVars>>

NextJob == JobStep \/ SourceWrite

\* job creation with a worker running, and scans repeated after it
NextJobRun ==
    \/ JobStep
    \/ scan_job_again
    \/ \E k \in Keys, t \in Texts : InsertRow(k, t)
    \/ \E w \in OneWorker : WorkerRun(w)

SpecJobRun == InitJob /\ [][NextJobRun]_vars

SpecJob == InitJob /\ [][NextJob]_vars

(* ---------------------- the worker pipeline --------------------------- *)

\* the state initialize_job leaves behind for a job over a table with some rows
Init ==
    /\ catalog = [n \in {TheJob} |-> JobRow("m2", "id")]
    /\ objects = JobObjects
    /\ embDim = model_dim("m2")
    /\ source \in [Keys -> {NoRow, "a "}]
    /\ sidecar = {}
    /\ queue = scan_job(<<>>)
    /\ fails = 0
    /\ pc = [w \in Workers |-> "read"]
    /\ cur = [w \in Workers |-> NoMsg]
    /\ job = [w \in Workers |-> NoJob]
    /\ inputs = [w \in Workers |-> {}]
    /\ dropped = {}
    /\ ij = NoCall
    /\ ServerOff
    /\ InputsOff

Next ==
    \/ Environment
    \/ \E w \in OneWorker : WorkerStep(w)

Spec == Init /\ [][Next]_vars

(* ------------------- several workers on one queue -------------------- *)

\* the same database and queue, drained by NumWorkers worker processes
NextWorkers ==
    \/ \E k \in Keys, t \in Texts : UpdateRow(k, t)
    \/ \E k \in Keys : DeleteRow(k)
    \/ \E i \in 1..MaxMsgs : VtExpire(i)
    \/ \E w \in Workers : WorkerRun(w)

SpecWorkers == Init /\ [][NextWorkers]_vars

(* ------------------------ the worker, scheduled ----------------------- *)

\* the worker's task is scheduled again and again, calls that answer return, and
\* the visibility timeout of a read message runs out
Fairness ==
    /\ \A w \in OneWorker : WF_vars(WorkerRun(w))
    /\ \A i \in 1..MaxMsgs : WF_vars(VtExpire(i))

\* the pipeline while rows are inserted and updated and none is deleted
NextLive ==
    \/ \E k \in Keys, t \in Texts : InsertRow(k, t)
    \/ \E k \in Keys, t \in Texts : UpdateRow(k, t)
    \/ CorruptSend
    \/ \E i \in 1..MaxMsgs : VtExpire(i)
    \/ \E w \in OneWorker : WorkerStep(w)

SpecLive == Init /\ [][NextLive]_vars /\ Fairness

(* ----------------------- identifiers, checked ------------------------ *)

InitInput ==
    /\ catalog = EmptyCatalog
    /\ PipelineOff
    /\ ServerOff
    /\ ci_input \in Inputs
    /\ ci_result = "none"
    /\ op = NoOp
    /\ hs = NoHs
    /\ sj = NoScan
    /\ max_retries = MaxRetries
    /\ tu = NoTu
    /\ lock = LockFree
    /\ tokens = InitialTokens
    /\ px = NoProxy

NextInput ==
    \/ check_input_call
    \/ initialize_job_sql
    \/ execute_job_sql
    \/ \E miss \in BOOLEAN : search_sql(miss)

SpecInput == InitInput /\ [][NextInput]_vars

(* --------------------- filters and hybrid search ---------------------- *)

\* the filter arguments of the searches whose rows are ranked: none, a bare value, and
\* each operator on the value 1
FilterArgs == {NoArg, <<"1">>, <<"e", "q", ".", "1">>, <<"g", "t", ".", "1">>,
               <<"g", "t", "e", ".", "1">>, <<"l", "t", ".", "1">>,
               <<"l", "t", "e", ".", "1">>}

Indexes == {[sem |-> [m \in Models |-> IF m = "m1" THEN p ELSE Reverse(p)],
             fts |-> f, tie |-> t] : p \in Perms(Docs), f \in Perms(Docs), t \in Perms(Docs)}

\* semantic_wt and fts_wt
Weights == {<<1, 1>>, <<2, 1>>, <<0, 1>>}

\* a search request on a job whose index contents are any
InitSearch ==
    /\ catalog = EmptyCatalog
    /\ PipelineOff
    /\ ServerOff
    /\ ci_input = <<>>
    /\ ci_result = "none"
    /\ op = NoOp
    /\ sj = NoScan
    /\ max_retries = MaxRetries
    /\ tu = NoTu
    /\ lock = LockFree
    /\ tokens = InitialTokens
    /\ px = NoProxy
    /\ \E arg \in FilterArgs, ix \in Indexes, limit \in 1..MaxLimit, window_size \in 1..MaxWindow,
          rrf_k \in {1, default_rrf_k}, w \in Weights :
          hs = [NoHs EXCEPT !.pc = "new", !.arg = arg, !.ix = ix, !.limit = limit,
                            !.window_size = window_size, !.rrf_k = rrf_k,
                            !.semantic_wt = w[1], !.fts_wt = w[2]]

NextSearch ==
    \/ search_deserialize
    \/ search_check_input
    \/ search_fetch_all

SpecSearch == InitSearch /\ [][NextSearch]_vars

\* a search request with any filter string, on the index contents of the cache model
InitFilter ==
    /\ catalog = EmptyCatalog
    /\ PipelineOff
    /\ ServerOff
    /\ ci_input = <<>>
    /\ ci_result = "none"
    /\ op = NoOp
    /\ sj = NoScan
    /\ max_retries = MaxRetries
    /\ tu = NoTu
    /\ lock = LockFree
    /\ tokens = InitialTokens
    /\ px = NoProxy
    /\ \E arg \in FilterStrings : hs = [NoHs EXCEPT !.pc = "new", !.arg = arg]

SpecFilter == InitFilter /\ [][NextSearch]_vars

(* ------------------- the extension's row triggers --------------------- *)

\* a realtime job of the extension while its source table is written
NextTriggers ==
    \/ \E k \in Keys, t \in WrittenTexts : insert_trigger(k, t)
    \/ \E k \in Keys, t \in WrittenTexts : update_trigger(k, t)
    \/ \E k \in Keys : DeleteRow(k)

SpecTriggers == Init /\ [][NextTriggers]_vars

(* ------------- the row triggers of a job on two columns --------------- *)

InitColumns ==
    /\ catalog = [n \in {TheJob} |-> JobRow("m2", "id")]
    /\ PipelineOff
    /\ ServerOff
    /\ InputsOff

\* the job's triggers are installed and the row is written
install_triggers ==
    /\ ~TriggerFires
    /\ objects' = objects \cup {"trigger_handler", "insert_trigger", "update_trigger"}
    /\ UNCHANGED <<catalog, embDim, source, sidecar, queue, fails, pc, cur, job, inputs,
                   dropped, ij, srvVars, inVars>>

NextColumns ==
    \/ install_triggers
    \/ \E new \in TableRows : insert_row_columns(new)
    \/ \E new \in TableRows : update_row_columns(new)
    \/ delete_row_columns

SpecColumns == InitColumns /\ [][NextColumns]_vars

(* ------------------- a connection through the proxy ------------------- *)

InitProxy ==
    /\ catalog = EmptyCatalog
    /\ PipelineOff
    /\ ServerOff
    /\ ci_input = <<>>
    /\ ci_result = "none"
    /\ op = NoOp
    /\ hs = NoHs
    /\ sj = NoScan
    /\ max_retries = MaxRetries
    /\ tu = NoTu
    /\ lock = LockFree
    /\ tokens = InitialTokens
    /\ px = [NoProxy EXCEPT !.handler = "accepted"]

NextProxy ==
    \/ handle_connection
    \/ handle_connection_err
    \/ \E d \in Directions : copy_bytes(d)
    \/ \E d \in Directions : copy_returns(d)
    \/ handle_connection_select
    \/ handle_connection_with_timeout
    \/ clock_tick

SpecProxy == InitProxy /\ [][NextProxy]_vars

(* ----------------------- scan_job and its batches --------------------- *)

\* a scan_job call on any rows, in any order
InitScan ==
    /\ catalog = [n \in {TheJob} |-> JobRow("m2", "id")]
    /\ PipelineOff
    /\ ServerOff
    /\ ci_input = <<>>
    /\ ci_result = "none"
    /\ op = NoOp
    /\ hs = NoHs
    /\ max_retries = MaxRetries
    /\ tu = NoTu
    /\ lock = LockFree
    /\ tokens = InitialTokens
    /\ px = NoProxy
    /\ \E S \in SUBSET ScanRows : \E rows \in Perms(S) : sj = [rows |-> rows, res |-> "none"]

NextScan == scan_job_ok \/ scan_job_err

SpecScan == InitScan /\ [][NextScan]_vars

(* ------------------- the worker under any max_retries ----------------- *)

InitRetries ==
    /\ catalog = [n \in {TheJob} |-> JobRow("m2", "id")]
    /\ objects = JobObjects
    /\ embDim = model_dim("m2")
    /\ source \in [Keys -> {NoRow, "a "}]
    /\ sidecar = {}
    /\ queue = scan_job(<<>>)
    /\ fails = 0
    /\ pc = [w \in Workers |-> "read"]
    /\ cur = [w \in Workers |-> NoMsg]
    /\ job = [w \in Workers |-> NoJob]
    /\ inputs = [w \in Workers |-> {}]
    /\ dropped = {}
    /\ ij = NoCall
    /\ ServerOff
    /\ ci_input = <<>>
    /\ ci_result = "none"
    /\ op = NoOp
    /\ hs = NoHs
    /\ sj = NoScan
    /\ max_retries \in 0..MaxRetries
    /\ tu = NoTu
    /\ lock = LockFree
    /\ tokens = InitialTokens
    /\ px = NoProxy

NextRetries ==
    \/ \E k \in Keys, t \in Texts : InsertRow(k, t)
    \/ \E i \in 1..MaxMsgs : VtExpire(i)
    \/ \E w \in OneWorker : WorkerStep(w)

SpecRetries == InitRetries /\ [][NextRetries]_vars

(* ------------------------ the server's cache -------------------------- *)

\* the server starts on a catalog with no job or with one
ServerStarts(budget) ==
    /\ catalog \in {EmptyCatalog, [n \in {TheJob} |-> CatRow(TheJob, "m1")]}
    /\ PipelineOff
    /\ InputsOff
    /\ jobmap = EmptyCatalog
    /\ trigger = FALSE
    /\ ver = 0
    /\ notifs = <<>>
    /\ lst = [NoListener EXCEPT !.pc = "load"]
    /\ retry_delay = 1
    /\ sleeps = <<>>
    /\ lfails = 0
    /\ lbudget = budget
    /\ processed = {}
    /\ sr = [r \in Searches |-> NoSearch]

InitCache == ServerStarts(MaxListenFails)

NextCache ==
    \/ CatalogWrite
    \/ ListenerRun
    \/ ListenerFail
    \/ \E r \in Searches : SearchStep(r)

\* the tasks are scheduled and the calls that answer return
FairCache ==
    /\ WF_vars(ListenerRun)
    /\ \A r \in Searches : WF_vars(SearchRun(r))

SpecCache == InitCache /\ [][NextCache]_vars /\ FairCache

(* the listener while its connection fails again and again *)

InitBackoff == ServerStarts(MaxBackoffFails)

NextBackoff ==
    \/ CatalogWrite
    \/ notify_undecodable
    \/ ListenerRun
    \/ ListenerFail

SpecBackoff == InitBackoff /\ [][NextBackoff]_vars

(* one search request with any identifiers, while the catalog is written *)

NextRequest ==
    \/ CatalogWrite
    \/ ListenerRun
    \/ ListenerFail
    \/ \E name \in RequestNames, filters \in RequestFilters : search_request(1, name, filters)
    \/ SearchRun(1)

SpecRequest == InitCache /\ [][NextRequest]_vars

(* the cache's tasks with the guards of the job map's lock taken and dropped *)

\* every access to the map is made under the guard it takes first
NextLock ==
    \/ CatalogWrite
    \/ ListenerRun /\ (lst.pc = "swap" => Holds(ListenerTask))
    \/ \E r \in Searches : jobmap_read(r)
    \/ \E task \in Searches \cup {ListenerTask} : jobmap_write(task)
    \/ \E r \in Searches : SearchStep(r) /\ (sr[r].pc \in {"lookup", "insert"} => Holds(r))

SpecLock == InitCache /\ [][NextLock]_vars

(* searches on a catalog that is not written any more once the first has begun *)

NextFixed ==
    \/ CatalogWrite /\ \A r \in Searches : sr[r] = NoSearch
    \/ ListenerRun
    \/ ListenerFail
    \/ \E r \in Searches : SearchStep(r)

SpecFixed == InitCache /\ [][NextFixed]_vars

(* ------------------------------- claims ------------------------------- *)

Held(i) == \E w \in Workers : cur[w].msg_id = i
Archived(i) == i <= Len(queue) /\ queue[i].st = "archived"
ArchivedNext(i) == queue'[i].st = "archived"
Poison(i) == queue[i].job_name \notin DOMAIN catalog

\* C2: a worker that read a message with read_ct > max_retries is never inside
\* execute_job with it: the only call it makes is queue.archive, and its cycle ends
\* with the message archived unless that archive call itself failed.
C2_SkipIsArchived ==
    /\ [](\A w \in Workers :
            (cur[w] # NoMsg /\ cur[w].read_ct > MaxRetries) => pc[w] = "archive")
    /\ [][\A w \in Workers :
            (cur[w].read_ct > MaxRetries /\ cur'[w] = NoMsg)
                => (ArchivedNext(cur[w].msg_id) \/ fails' = fails + 1)]_vars

C2_Witness == \E w \in Workers : pc[w] = "archive" /\ cur[w].read_ct > MaxRetries

\* C3: a failing execute_job (read_ct <= max_retries) ends the cycle with an error
\* and leaves the queue as it is, so the message is read again once its visibility
\* timeout is over; a message is archived only by a worker that upserted its
\* embeddings or read it with read_ct > max_retries.
C3_ErrorLeavesMessage ==
    /\ [][\A w \in Workers :
            (pc[w] \in ExecPcs /\ pc'[w] \notin ExecPcs \cup {"archive"})
                => (queue' = queue /\ pc'[w] = "sleep" /\ ~ArchivedNext(cur[w].msg_id))]_vars
    /\ [][\A i \in 1..Len(queue) :
            (~Archived(i) /\ ArchivedNext(i))
                => \E w \in Workers :
                      /\ cur[w].msg_id = i
                      /\ cur[w].upserted \/ cur[w].read_ct > MaxRetries]_vars

C3_Witness ==
    \E i \in 1..Len(queue) :
        /\ queue[i].job_name = TheJob
        /\ queue[i].read_ct \in 1..MaxRetries
        /\ queue[i].st = "ready"
        /\ ~Held(i)
        /\ fails > 0

\* C4 as claimed: a message whose job is not in the catalog is archived in the cycle
\* that hit the Not-found error, and is not left on the queue for redelivery.
C4_NotFoundArchivedAtOnce ==
    \A i \in 1..Len(queue) :
        (Poison(i) /\ queue[i].read_ct >= 1 /\ ~Held(i)) => Archived(i)

\* C4 as amended: a Not-found error is returned like every other error of
\* execute_job: the cycle ends without archiving, and the message is archived only
\* when it is read with read_ct > max_retries.
C4_NotFoundIsRetried ==
    /\ [][\A w \in Workers :
            (pc[w] = "get_job" /\ get_vectorize_job(cur[w].job_name) = NoJob
               /\ pc'[w] # "get_job")
                => (pc'[w] = "sleep" /\ queue' = queue)]_vars
    /\ [](\A i \in 1..Len(queue) :
            (Poison(i) /\ Archived(i)) => queue[i].read_ct > MaxRetries)

C4_Witness == \E i \in 1..Len(queue) : Poison(i) /\ Archived(i)

LoopPcs == {"read", "sleep", "archive"} \cup ExecPcs

\* C6: the worker loop never ends: it is always at a step of the loop and has a
\* step to take; a cycle that ends with an error or without a message goes to the
\* sleep, the sleep goes back to the read, and a cycle that archived its message
\* goes straight back to the read.
C6_WorkerNeverStops ==
    /\ [](\A w \in OneWorker : pc[w] \in LoopPcs /\ ENABLED WorkerStep(w))
    /\ [][\A w \in OneWorker :
            /\ (pc[w] = "read" /\ pc'[w] # "read" /\ cur'[w] = NoMsg) => pc'[w] = "sleep"
            /\ (pc[w] \in ExecPcs /\ pc'[w] \notin ExecPcs \cup {"archive"}) => pc'[w] = "sleep"
            /\ (pc[w] = "archive" /\ cur'[w] = NoMsg)
                 => pc'[w] = (IF fails' = fails THEN "read" ELSE "sleep")
            /\ (pc[w] = "sleep" /\ pc'[w] # "sleep") => pc'[w] = "read"]_vars

C6_Witness == \E w \in OneWorker : pc[w] = "sleep" /\ fails > 0 /\ Readable(queue) # {}

UniquePk(S) == \A r1, r2 \in S : r1.pk = r2.pk => r1 = r2

C8_SidecarSubsetOfSource == \A k \in SidecarKeys : Present(k)

C8_Witness ==
    \E w \in Workers :
        /\ pc[w] = "upsert"
        /\ \E p \in paired_embeddings(w) : ~Present(p.pk)

\* C10: an initialize_job that fails up to its commit leaves the catalog, the
\* schema objects and the sidecar's column as they were when it began; for a job
\* that did not exist, no catalog row and no object of the job exists.
C10_FailedInitRollsBack ==
    (ij.pc = "idle" /\ ij.res = "ErrTx") =>
        /\ Committed = ij.snap
        /\ TheJob \notin DOMAIN ij.snap.catalog
              => (catalog = EmptyCatalog /\ objects = {} /\ embDim = 0)

C10_Witness ==
    /\ ij.pc = "idle"
    /\ ij.res = "ErrTx"
    /\ ij.n >= 3
    /\ catalog = EmptyCatalog

HasEmbedding(k) ==
    \E r \in sidecar : r.pk = k /\ Len(r.embeddings) = model_dim(catalog[TheJob].model)

\* C1 as claimed: every row of the source table eventually has a sidecar row with
\* a vector of length D (or has been deleted meanwhile).
C1_EveryRowEmbedded ==
    \A k \in Keys : Present(k) ~> (HasEmbedding(k) \/ ~Present(k))

\* C1 as amended: every row of the source table eventually has a sidecar row with a
\* vector of length D, or is deleted, or a message carrying its key was archived
\* unprocessed because its read_ct exceeded max_retries.
C1_EveryRowEmbeddedOrDropped ==
    \A k \in Keys : Present(k) ~> (HasEmbedding(k) \/ ~Present(k) \/ k \in dropped)

C1_Witness ==
    /\ \A k \in Keys : Present(k) /\ HasEmbedding(k)
    /\ dropped = {}
    /\ fails > 0
    /\ Len(queue) > 1

\* C5: a message whose job is not in the catalog never gets past the job lookup, is
\* read at most max_retries+1 times unless a queue call failed, is archived with
\* read_ct > max_retries, and the worker goes on: again and again every message on
\* the queue, the later ones included, is archived.
C5_PoisonArchivedWorkerContinues ==
    /\ [](\A i \in 1..Len(queue) :
            Poison(i) =>
               /\ queue[i].read_ct <= MaxRetries + 1 + fails
               /\ Archived(i) => queue[i].read_ct > MaxRetries
               /\ \A w \in Workers :
                     cur[w].msg_id = i => pc[w] \in {"get_job", "archive"})
    /\ []<>(\A i \in 1..Len(queue) : Archived(i))

C5_Witness ==
    \E i, j \in 1..Len(queue) :
        /\ i < j
        /\ Poison(i) /\ Archived(i) /\ queue[i].read_ct = MaxRetries + 1
        /\ ~Poison(j) /\ Archived(j) /\ HasEmbedding(CastPk(CHOOSE t \in queue[j].record_ids : TRUE))

Drained ==
    /\ \A i \in 1..Len(queue) : Archived(i)
    /\ \A w \in Workers : cur[w] = NoMsg

\* C9: whenever every message is archived and no worker holds one, every sidecar
\* row holds the embedding of the current text of its source row.
C9_DrainedMeansInSync ==
    Drained =>
        \A r \in sidecar :
            /\ Present(r.pk)
            /\ r.embeddings = generate_embedding(catalog[TheJob].model, Trim(source[r.pk]))

(* claims about job creation, identifiers and the server's cache *)

\* C11: when initialize_job failed in step 8 or 9 the catalog row and every schema
\* object of the job are committed, and a scan_job run afterwards sends, in the
\* messages it enqueues, the key of every source row that has no sidecar row.
C11_LateFailureKeepsJobAndScanHeals ==
    /\ []((ij.pc = "idle" /\ ij.res = "ErrPost") =>
            /\ TheJob \in DOMAIN catalog
            /\ Range(Statements(ij.req.variant)) \subseteq objects)
    /\ [][scan_job_again =>
            \A k \in Keys :
                (Present(k) /\ k \notin SidecarKeys) =>
                    \E i \in (Len(queue) + 1)..Len(queue') :
                        /\ queue'[i].job_name = TheJob
                        /\ PkText(k) \in queue'[i].record_ids]_vars

C11_Witness ==
    /\ ij.pc = "idle"
    /\ ij.res = "ErrPost"
    /\ SidecarKeys = {1}
    /\ Present(2)
    /\ Len(queue) = 3
    /\ queue[3].record_ids = {PkText(2)}
    /\ queue[1].record_ids = {PkText(1)}

\* a call of initialize_job for a job_name the catalog already held has returned
Repeated == ij.pc = "idle" /\ ij.res # "none" /\ TheJob \in DOMAIN ij.snap.catalog

\* C12: a call of initialize_job for a job_name that already exists, with a primary key
\* column that exists and no provider or database failure, returns Ok and leaves the
\* catalog row of that job_name holding the request's values; the catalog holds one
\* row per job_name.
C12_InitializeJobIsUpsert ==
    /\ (Repeated /\ get_column_datatype(ij.req.primary_key) # "NotFound" /\ fails = 0)
          => /\ ij.res = "Ok"
             /\ catalog[TheJob] = JobRow(ij.req.model, ij.req.primary_key)
    /\ DOMAIN catalog \subseteq {TheJob}

IdentifierBytes == (65..90) \cup (97..122) \cup (48..57) \cup {95}
HasOtherByte(i) == \E n \in 1..Len(i) : i[n] \notin IdentifierBytes

\* C14: every identifier interpolated into a statement that job creation, the worker's
\* record fetch or search has executed passed check_input in that operation before,
\* and an operation on an identifier with a byte outside [A-Za-z0-9_] has failed with
\* no statement executed.
C14_IdentifiersCheckedBeforeSql ==
    /\ \A n \in 1..Len(op.sql) : op.sql[n] \subseteq op.checked
    /\ (op.kind # "none" /\ \E i \in op.stored \cup {ci_input} : HasOtherByte(i))
          => (op.resp = "Err" /\ op.sql = <<>>)

\* C15: check_input returns Ok exactly for the non-empty strings whose bytes are all
\* in [A-Za-z0-9_].
C15_CheckInputExact ==
    ci_result # "none" =>
        (ci_result = "Ok" <=> (Len(ci_input) > 0 /\ ~HasOtherByte(ci_input)))

\* the cache entry of a job is the catalog's row of it (the entry's job_name field
\* left aside: the loader and the listener move it into the key), or both are absent
Reflects(name) ==
    IF name \in DOMAIN catalog
    THEN name \in DOMAIN jobmap /\ take_job_name(jobmap[name]) = take_job_name(catalog[name])
    ELSE name \notin DOMAIN jobmap

\* C16: once the writes to the catalog have ended, the job map eventually holds, for
\* every job_name, the catalog's row of it, and no entry for a job_name without a row.
C16_CacheConverges == <>[](\A name \in CacheJobs : Reflects(name))

\* the listener has handled the notification of the latest catalog write
ListenerCaughtUp == ver > 0 /\ ver \in processed

\* C17: when a job's row is deleted and the listener has handled the notification of
\* that delete, the job map has no entry for the job (so a search for it misses, reads
\* the database and answers NotFound), whatever searches run meanwhile.
C17_DeletedJobLeavesCache ==
    \A name \in CacheJobs :
        (ListenerCaughtUp /\ name \notin DOMAIN catalog) => name \notin DOMAIN jobmap

\* a step of the initial loader or the listener that replaces the whole map by the
\* rows it read from the catalog
WholeMapReplaced ==
    \/ lst.pc = "load" /\ lst'.pc = "setup" /\ jobmap' = to_jobmap(catalog)
    \/ lst.pc = "swap" /\ lst'.pc = "recv" /\ jobmap' = to_jobmap(lst.all_jobs)

\* a step of a search that inserts the one entry it read from the database
OneEntryWrittenThrough ==
    \E r \in Searches :
        /\ sr[r].pc = "insert" /\ sr'[r].pc = "respond"
        /\ DOMAIN jobmap' = DOMAIN jobmap \cup {sr[r].job_name}
        /\ jobmap'[sr[r].job_name] = sr[r].job
        /\ \A n \in DOMAIN jobmap \ {sr[r].job_name} : jobmap'[n] = jobmap[n]

\* C18 as claimed: every write of the job map is the initial loader's or the listener's
\* and replaces the whole map in one step; no step inserts a single entry.
C18_OnlyLoaderAndListenerWrite == [][jobmap' # jobmap => WholeMapReplaced]_vars

\* C18 as amended: every write of the job map is the initial loader's or the
\* listener's, replacing the whole map in one step by the rows read from the catalog,
\* or a search's write-through, inserting the one entry it read from the database and
\* leaving the other entries as they are.
C18_WritersOfJobMap ==
    [][jobmap' # jobmap => (WholeMapReplaced \/ OneEntryWrittenThrough)]_vars

C18_Witness ==
    /\ processed # {}
    /\ \E r \in Searches :
          /\ sr[r].pc = "respond"
          /\ sr[r].from = "db"
          /\ sr[r].job_name \in DOMAIN jobmap
          /\ jobmap[sr[r].job_name] = sr[r].job
          /\ DOMAIN jobmap = CacheJobs

BackoffDelay(i) == IF i <= 6 THEN 2 ^ (i - 1) ELSE 60

\* C20: the delays the listener has slept after its failures are 1, 2, 4, 8, 16, 32 and
\* then 60 seconds each, and the delay it holds is between 1 and 60 seconds.
C20_BackoffSchedule ==
    /\ \A i \in 1..Len(sleeps) : sleeps[i] = BackoffDelay(i)
    /\ retry_delay >= 1
    /\ retry_delay <= 60

C20_Witness ==
    /\ Len(sleeps) = 8
    /\ sleeps[7] = 60
    /\ sleeps[8] = 60
    /\ lst.pc = "recv"

\* C21: when the listener has connected and listened and then loses the connection, the
\* delay it sleeps before the next attempt is 1 s.
C21_BackoffResetBySuccess ==
    (lst.pc = "backoff" /\ lst.listened) => retry_delay = 1

\* C22: a notification whose payload cannot be decoded never reaches the refresh: the
\* listener drops the session on it instead.
C22_UndecodableDropsSession ==
    lst.pc \in {"fetch", "swap"} => lst.n # Undecodable

\* C23: whichever way the initial load of the catalog ends, the startup goes on to
\* install the notifications and the service serves.
C23_StartsDespiteLoadFailure ==
    [][(lst.pc = "load" /\ lst'.pc # "load") => lst'.pc = "setup"]_vars

\* C24: every row a search returns satisfies `column op value` for every filter of the
\* request, with the operator the request gave.
C24_FiltersAppliedWithOperator ==
    (hs.pc = "done" /\ hs.resp = "Ok") =>
        \A i \in 1..Len(hs.results) : \A c \in DOMAIN hs.filters :
            Compare(to_sql(hs.filters[c].operator), hs.results[i], ValueOf(hs.filters[c].value))

OperatorNames == [Equal |-> <<"e", "q">>, GreaterThan |-> <<"g", "t">>,
                  GreaterThanOrEqual |-> <<"g", "t", "e">>, LessThan |-> <<"l", "t">>,
                  LessThanOrEqual |-> <<"l", "t", "e">>]
HasDot(s) == \E i \in 1..Len(s) : s[i] = "."
FirstDot(s) == CHOOSE i \in 1..Len(s) : s[i] = "." /\ \A j \in 1..Len(s) : s[j] = "." => i <= j
Parsed == hs.filters["id"]

\* C25: a filter string `op.value` with op one of eq, gt, gte, lt, lte parses to that
\* operator and the text after the first '.'; a string without '.' parses to eq with
\* the whole string; a string whose prefix before the first '.' is no operator is rejected.
C25_FilterParsing ==
    (hs.pc \notin {"off", "new"} /\ hs.arg # NoArg) =>
        LET s == hs.arg IN
        IF ~HasDot(s)
        THEN DOMAIN hs.filters = {"id"} /\ Parsed.operator = "Equal" /\ Parsed.value = s
        ELSE IF \E o \in FilterOperator : SubSeq(s, 1, FirstDot(s) - 1) = OperatorNames[o]
             THEN /\ DOMAIN hs.filters = {"id"}
                  /\ SubSeq(s, 1, FirstDot(s) - 1) = OperatorNames[Parsed.operator]
                  /\ Parsed.value = SubSeq(s, FirstDot(s) + 1, Len(s))
             ELSE hs.filters = EmptyFilters /\ hs.pc = "done" /\ hs.resp = "BadRequest"

C25_Witness ==
    /\ hs.arg = <<"g", "t", ".", "1", ".">>
    /\ hs.pc = "check"
    /\ Parsed = [ok |-> TRUE, operator |-> "GreaterThan", value |-> <<"1", ".">>]

\* the rank the claim gives a row on one side: its rank within the window, else window_size + 1
SideRank(order, d) ==
    Min(row_number(order, eligible(legacy_filters(hs.filters)), d), hs.window_size + 1)
Score(d) ==
    rrf_score(hs.rrf_k, hs.semantic_wt, hs.fts_wt,
              SideRank(hs.ix.sem[hs.model], d), SideRank(hs.ix.fts, d))
InSomeWindow ==
    {d \in eligible(legacy_filters(hs.filters)) :
        \/ SideRank(hs.ix.sem[hs.model], d) <= hs.window_size
        \/ SideRank(hs.ix.fts, d) <= hs.window_size}

\* C26: the result of a search is the `limit` highest-scoring rows of the two windows in
\* descending order of semantic_wt/(rrf_k+sem_rank) + fts_wt/(rrf_k+fts_rank), a row
\* missing from a window having rank window_size+1 there; it never has more than
\* `limit` rows.
C26_TopLimitByRrf ==
    (hs.pc = "done" /\ hs.resp = "Ok") =>
        LET res == hs.results IN
        /\ Len(res) <= hs.limit
        /\ Len(res) = Min(hs.limit, Cardinality(InSomeWindow))
        /\ \A i \in 1..Len(res) : res[i] \in InSomeWindow
        /\ \A i, j \in 1..Len(res) : i < j =>
               res[i] # res[j] /\ ~ScoreLess(Score(res[i]), Score(res[j]))
        /\ \A d \in InSomeWindow \ Range(res) : \A i \in 1..Len(res) :
               ~ScoreLess(Score(res[i]), Score(d))

C26_Witness ==
    /\ hs.pc = "done"
    /\ hs.resp = "Ok"
    /\ Len(hs.results) = hs.limit
    /\ Cardinality(InSomeWindow) > hs.limit
    /\ \E i \in 1..Len(hs.results) :
           /\ SideRank(hs.ix.sem[hs.model], hs.results[i]) = hs.window_size + 1
           /\ i < Len(hs.results)

Answered(r) == sr[r].pc = "idle" /\ sr[r].resp # "none"

\* C27 as stated: with no catalog write since the first search began, two searches for
\* the same job with the same query and parameters return the same rows in the same
\* order.
C27_SameResultsUnderFixedCatalog ==
    \A r, q \in Searches :
        (Answered(r) /\ Answered(q) /\ sr[r].job_name = sr[q].job_name)
        => sr[r].resp = sr[q].resp /\ sr[r].results = sr[q].results

UsedCatalogRow(r) ==
    /\ sr[r].job_name \in DOMAIN catalog
    /\ take_job_name(sr[r].job) = take_job_name(catalog[sr[r].job_name])

\* C27: two searches for the same job with the same query and parameters that both ran
\* on the job's current catalog row, taken from the job map or read through, return the
\* same rows in the same order.
C27_SameRowSameResults ==
    \A r, q \in Searches :
        (/\ Answered(r) /\ Answered(q)
         /\ sr[r].resp = "Ok" /\ sr[q].resp = "Ok"
         /\ sr[r].job_name = sr[q].job_name
         /\ UsedCatalogRow(r) /\ UsedCatalogRow(q))
        => sr[r].results = sr[q].results

C27_Witness ==
    \E r, q \in Searches :
        /\ Answered(r) /\ Answered(q)
        /\ sr[r].resp = "Ok" /\ sr[q].resp = "Ok"
        /\ sr[r].job_name = sr[q].job_name
        /\ UsedCatalogRow(r) /\ UsedCatalogRow(q)
        /\ sr[r].from = "cache" /\ sr[r].job.job_name = ""
        /\ sr[q].from = "db"

QueuedIds(i) == queue[i].record_ids

\* C28: a scan_job call that returns Ok has sent one message per batch, each with at
\* least one and at most BatchSize (10 000) record ids; the messages together hold
\* every row of the new-rows query exactly once; for no rows no message is sent.
C28_ScanBatches ==
    sj.res = "Ok" =>
        /\ \A i \in 1..Len(queue) :
               /\ queue[i].job_name = TheJob
               /\ Cardinality(QueuedIds(i)) \in 1..BatchSize
        /\ \A i, j \in 1..Len(queue) : i # j => QueuedIds(i) \cap QueuedIds(j) = {}
        /\ UNION {QueuedIds(i) : i \in 1..Len(queue)} = {PkText(k) : k \in Range(sj.rows)}
        /\ sj.rows = <<>> => queue = <<>>

C28_Witness ==
    /\ sj.res = "Ok"
    /\ Len(sj.rows) = 5
    /\ Len(queue) = 3
    /\ Cardinality(QueuedIds(3)) = 1

\* C30: the first read of a message is processed, whatever max_retries >= 0 is
\* configured: the worker that has read a message for the first time enters execute_job.
C30_FirstReadIsProcessed ==
    \A w \in OneWorker :
        (cur[w] # NoMsg /\ cur[w].read_ct = 1) => pc[w] # "archive" \/ cur[w].upserted

\* C29: for a realtime job every committed INSERT of a source row, and every committed
\* UPDATE that changes the embedded column, appends one message to the queue, and that
\* message holds the row's primary key.
C29_EveryChangeEnqueued ==
    [][\A k \in Keys :
          (source'[k] # NoRow /\ source'[k] # source[k]) =>
              /\ Len(queue') = Len(queue) + 1
              /\ SubSeq(queue', 1, Len(queue)) = queue
              /\ queue'[Len(queue')] = Message(TheJob, {PkText(k)})]_vars

C29_Witness ==
    /\ source[1] = "b"
    /\ source[2] = "a "
    /\ Len(queue) = 3
    /\ queue[1].record_ids = {PkText(1)}
    /\ queue[2].record_ids = {PkText(2)}
    /\ queue[3].record_ids = {PkText(1)}

\* C31: the update trigger runs the handler exactly when some embedded column of the
\* row changed, the insert trigger runs it for every inserted row, and an UPDATE that
\* changes no embedded column enqueues nothing.
C31_UpdateTriggerOnlyOnChange ==
    [][/\ tu'.write = "insert" => tu'.ran
       /\ tu'.write = "update" =>
              LET changed == \E c \in input_columns : tu.row[c] # tu'.new[c] IN
              /\ tu'.ran <=> changed
              /\ ~changed => queue' = queue /\ tu'.row = tu'.new
              /\ queue' # queue => changed]_<<tu, queue>>

C31_Witness ==
    /\ tu.write = "update"
    /\ ~tu.ran
    /\ tu.old["other"] # tu.new["other"]
    /\ tu.row = tu.new
    /\ Len(queue) = 2

\* C32: after a refresh_job_cache that succeeded the job map's keys are the job_names
\* the refresh read from the catalog: an entry of a job that is not among them, a
\* search's write-through included, is gone.
C32_RefreshReplacesKeySet ==
    [][(lst.pc = "swap" /\ lst'.pc = "recv") =>
          /\ DOMAIN jobmap' = {lst.all_jobs[n].job_name : n \in DOMAIN lst.all_jobs}
          /\ \A n \in DOMAIN jobmap \ DOMAIN lst.all_jobs : n \notin DOMAIN jobmap']_vars

C32_Witness ==
    /\ lst.pc = "recv"
    /\ processed # {}
    /\ \E r \in Searches :
          /\ sr[r].from = "db" /\ sr[r].resp = "Ok" /\ sr[r].pc = "idle"
          /\ sr[r].job_name \notin DOMAIN jobmap
          /\ sr[r].job_name \notin DOMAIN catalog

\* C33: a refresh_job_cache that fails on its catalog query leaves the job map as it
\* was, and the listener keeps its session: it returns to recv with the notifications
\* queued on the connection, without a reconnect and without a backoff sleep.
C33_FailedRefreshKeepsMapAndSession ==
    [][(lst.pc = "fetch" /\ lst'.pc \notin {"fetch", "swap"}) =>
          /\ jobmap' = jobmap
          /\ lst'.pc = "recv"
          /\ lst'.listened
          /\ notifs' = notifs
          /\ sleeps' = sleeps
          /\ retry_delay' = retry_delay]_vars

C33_Witness ==
    /\ trigger
    /\ lfails = 1
    /\ sleeps = <<>>
    /\ lst.pc = "swap"
    /\ lst.n = 2
    /\ 1 \notin processed
    /\ jobmap # to_jobmap(lst.all_jobs)

\* the startup has loaded the map and the listener has not listened yet, no search has
\* touched the map, and the catalog's row of the job was written since the load
ChangedBeforeListen(name) ==
    /\ lst.pc \in {"setup", "sleep1", "connect"}
    /\ ~lst.listened
    /\ \A r \in Searches : sr[r] = NoSearch
    /\ ~Reflects(name)

\* C34: a catalog change committed while the listener is not listening becomes visible
\* in the job map once the listener is connected, with no further catalog change: from
\* a state where the change is missed, the map comes to hold the catalog's row of the
\* job, or the catalog is written again.
C34_MissedChangeSeenOnConnect ==
    \A name \in CacheJobs : \A v \in 0..MaxWrites :
        (ChangedBeforeListen(name) /\ ver = v) ~> (Reflects(name) \/ ver # v)

\* C35: every value of the job map carries the job_name under which it is keyed,
\* whether the initial loader, a listener refresh or a search's write-through stored it.
C35_EntriesCarryTheirKey ==
    \A n \in DOMAIN jobmap : jobmap[n].job_name = n

\* the request carries an identifier with a byte outside [A-Za-z0-9_]
InvalidRequest(name, filters) ==
    \E s \in {name} \cup {f[1] : f \in filters} \cup {f[2] : f \in filters} :
        HasOtherByte(as_bytes(s))

\* C36: a search request with an invalid job_name, filter column or filter value, or
\* for a job that is in neither the job map nor the catalog, returns an error, and its
\* handler neither calls the embedding provider nor writes the job map.
C36_RejectedSearchHasNoEffect ==
    [][\A r \in Searches :
          /\ (sr[r].pc = "idle" /\ sr'[r] # sr[r]
                /\ InvalidRequest(sr'[r].job_name, sr'[r].filters))
                => sr'[r].pc = "idle" /\ sr'[r].resp = "Err" /\ jobmap' = jobmap
          /\ (sr[r].pc = "dbread" /\ sr'[r] # sr[r] /\ sr[r].job_name \notin DOMAIN catalog)
                => sr'[r].pc = "idle" /\ sr'[r].resp = "NotFound" /\ jobmap' = jobmap
          /\ sr'[r].resp \in {"Err", "NotFound"} => sr'[r].did = {}]_vars

C36_Witness ==
    /\ sr[1].resp = "Err"
    /\ sr[1].job_name = TheJob
    /\ sr[1].filters = {<<"id", "1'">>}
    /\ TheJob \in DOMAIN catalog
    /\ TheJob \notin DOMAIN jobmap

C36_WitnessNotFound ==
    /\ sr[1].resp = "NotFound"
    /\ sr[1].job_name \notin DOMAIN jobmap
    /\ sr[1].job_name \notin DOMAIN catalog

\* the calls a task awaits with the network between: the handler's catalog lookup, its
\* embedding request and search query, the listener's connect, recv and catalog query
SearchWaitsOnIo(r) == sr[r].pc \in {"dbread", "respond"}
ListenerWaitsOnIo == lst.pc \in {"load", "setup", "connect", "recv", "backoff", "fetch"}

\* C37: no task holds a guard of the job map's lock while it waits on a database query
\* or a provider call: a guard is held only by a handler that is about to read or
\* insert, or by the refresh that has its rows and is about to swap, and a writer
\* excludes every other holder.
C37_NoGuardHeldDuringIo ==
    /\ \A r \in Searches : Holds(r) => ~SearchWaitsOnIo(r) /\ sr[r].pc \in {"lookup", "insert"}
    /\ Holds(ListenerTask) => ~ListenerWaitsOnIo /\ lst.pc = "swap"
    /\ lock.writer # {} => lock.readers = {} /\ Cardinality(lock.writer) = 1

C37_Witness ==
    /\ lock.readers = {1}
    /\ sr[2].pc = "insert"
    /\ lst.pc = "swap"
    /\ sr[1].job_name = sr[2].job_name

\* the job's catalog row and sidecar table are committed
JobCommitted == TheJob \in DOMAIN catalog /\ "embeddings_table" \in objects

\* C38: initialize_job enqueues the backfill only after its transaction has committed:
\* a step of initialize_job puts messages on the queue only at its scan, with the job's
\* catalog row and sidecar table committed, and no message is on the queue while they
\* are uncommitted or were rolled back.
C38_BackfillAfterCommit ==
    [][/\ (queue' # queue /\ ij' # ij) => JobCommitted /\ ij.pc = "scan"
       /\ queue' # <<>> => JobCommitted']_vars

C38_Witness ==
    /\ ij.pc = "idle"
    /\ ij.res = "Ok"
    /\ fails > 0
    /\ Len(queue) = 1
    /\ queue[1].record_ids = {PkText(k) : k \in Keys}

TokenRows(k) == {r \in tokens : r.pk = k}

\* C39: after a call of core's initialize_job has returned Ok every row of the source
\* table has exactly one row in _search_tokens_<job>, the rows inserted or updated
\* between the commit and the bulk populate included.
C39_EveryRowHasOneTokensRow ==
    (ij.pc = "idle" /\ ij.res = "Ok" /\ ij.req.variant = "core") =>
        \A k \in Keys : Present(k) => Cardinality(TokenRows(k)) = 1

C39_Witness ==
    /\ ij.pc = "idle" /\ ij.res = "Ok" /\ ij.req.variant = "core"
    /\ source[1] = "a " /\ source[2] = "b"
    /\ tokens = {[pk |-> 1, search_tokens |-> "a"], [pk |-> 2, search_tokens |-> "b"]}
    /\ px = NoProxy
    /\ Len(queue) = 2
    /\ queue[1].record_ids = {PkText(2)}
    /\ queue[2].record_ids = {PkText(1), PkText(2)}

\* C40: a forwarded connection does not outlive its timeout: once the timeout has
\* fired, or a direction has closed and the handler has returned, no direction of the
\* connection is forwarded any more.
C40_ForwardingStopsWithHandler ==
    px.handler \in {"timeout", "returned"} => \A d \in Directions : px.task[d] # "running"

====
